---- MODULE Spec2Model ----
(***************************************************************************)
(* A model of the colour engine of colorweave (c_weave):                   *)
(*   - utils/color.py : infer_palette (k-means over weighted YUV points),  *)
(*                      get_varying_colors (greedy farthest-point choice)  *)
(*   - wallpaper.py   : get_compatible_wallpapers and                      *)
(*                      rank_wallpapers_by_color_similarity (ranking)      *)
(*                                                                         *)
(* Numbers.  The code computes in floating point, and so does the model:   *)
(* a float is a record [neg, m, e] that stands for (-1)^neg * m * 2^e and  *)
(* every operation rounds as the IEEE 754 double operation does.  The     *)
(* built-in sum() of floats is the interpreter's: one addition per item up *)
(* to CPython 3.11, a compensated sum from CPython 3.12 on.  The           *)
(* repository runs on either, and so does the model.                       *)
(***************************************************************************)
EXTENDS Integers, Sequences, FiniteSets, TLC

VARIABLES
    points,     \* infer_palette: the weighted points of the image (get_points)
    k,          \* infer_palette: the requested palette size n
    clusters,   \* kmeans: the list of Cluster(points, center, n)
    kpc,        \* kmeans: "seed", "loop", "returned", "raised"
    iters,      \* kmeans: the number of loop iterations run so far
    palette,    \* infer_palette: the returned list of hex colours
    gvColors,   \* get_varying_colors: the argument colors
    gvN,        \* get_varying_colors: the argument n
    gvpc,       \* get_varying_colors: "call", "returned", "raised"
    gvResult,   \* get_varying_colors: the returned list
    rkStore,    \* ranking: the wallpaper records (list_wallpapers() or the
                \*   wallpapers argument), in list order
    rkCall,     \* ranking: the function called and its arguments
    rkpc,       \* ranking: "call", "returned", "raised"
    rkFiltered, \* get_compatible_wallpapers: filtered_wallpapers
    rkCandidates, \* ranking: the records that reach the scoring loop
    rkRanked,   \* ranking: ranked_wallpapers as the call leaves it, sorted
                \*   unless a candidate raised
    rkResult,   \* ranking: the returned list
    compensated, \* ranking: whether the interpreter the call runs on has
                \*   the compensated sum() of floats (CPython 3.12) or the
                \*   plain one (CPython up to 3.11)
    ecColors,   \* estimate_colors: the argument hex_colors
    ecpc,       \* estimate_colors: "call", "returned"
    ecResult,   \* estimate_colors: the returned list of names
    wsRecords,  \* store: the metadata files <id>.json of WALLPAPER_DIR
    wsImages,   \* store: the image files <id><ext> of WALLPAPER_DIR
    wsCall,     \* store: the last call: its function, its outcome, the id
                \*   and the result it concerns, and whether it ran
                \*   infer_palette
    dwArgs,     \* determine_wallpapers_to_set: the arguments
    dwpc,       \* determine_wallpapers_to_set: "call", "returned"
    dwResult    \* determine_wallpapers_to_set: the returned list

kmVars == <<points, k, clusters, kpc, iters, palette>>

gvVars == <<gvColors, gvN, gvpc, gvResult>>

rkVars == <<rkStore, rkCall, rkpc, rkFiltered, rkCandidates, rkRanked, rkResult,
           compensated>>

ecVars == <<ecColors, ecpc, ecResult>>

wsVars == <<wsRecords, wsImages, wsCall>>

dwVars == <<dwArgs, dwpc, dwResult>>

vars == <<points, k, clusters, kpc, iters, palette,
          gvColors, gvN, gvpc, gvResult,
          rkStore, rkCall, rkpc, rkFiltered, rkCandidates, rkRanked, rkResult,
          compensated,
          ecColors, ecpc, ecResult,
          wsRecords, wsImages, wsCall,
          dwArgs, dwpc, dwResult>>

(***************************************************************************)
(* Bounds of the model.                                                    *)
(***************************************************************************)
MaxPoints == 5      \* distinct colours in an image
MaxCount == 2       \* pixels per distinct colour
MaxPixels == 5      \* pixels per colour of an image of real colours
MaxK == 3           \* requested palette size
MaxColors == 4      \* length of the list given to get_varying_colors
MaxN == 3           \* the n given to get_varying_colors
MaxNames == 3       \* colours handed to estimate_colors
MaxWallpapers == 3  \* wallpaper records given to a ranking pass
MaxListed == 3      \* wallpapers handed to determine_wallpapers_to_set
MaxDisplays == 2    \* displays handed to determine_wallpapers_to_set

(***************************************************************************)
(* Generic helpers.                                                        *)
(***************************************************************************)
Max2(a, b) == IF a >= b THEN a ELSE b

Min2(a, b) == IF a <= b THEN a ELSE b

RECURSIVE SumSeq(_)
SumSeq(s) == IF s = <<>> THEN 0 ELSE Head(s) + SumSeq(Tail(s))

\* The elements of a set of integers in increasing order.
RECURSIVE SortedSeq(_)
SortedSeq(S) ==
    IF S = {} THEN <<>>
    ELSE LET m == CHOOSE x \in S : \A y \in S : x <= y
         IN  <<m>> \o SortedSeq(S \ {m})

\* The sequences over S of length 0..n.
SeqsUpTo(S, n) == UNION {[1..m -> S] : m \in 0..n}

\* The elements of a sequence.
Range(s) == {s[i] : i \in 1..Len(s)}

\* The sequences of n distinct elements of 1..m (random.sample's outcomes).
Samples(m, n) ==
    {s \in [1..n -> 1..m] : \A i, j \in 1..n : i # j => s[i] # s[j]}

(***************************************************************************)
(* Natural numbers of any size: the digits of the number in base Base, the *)
(* least significant first, without leading zeros (zero is the empty       *)
(* sequence).  Base is a power of two, so that a shift by bits is a shift  *)
(* of digits and a multiplication of digits by a power of two.             *)
(***************************************************************************)
LimbBits == 14

Base == 2 ^ LimbBits

RECURSIVE BigOf(_)
BigOf(n) == IF n = 0 THEN <<>> ELSE <<n % Base>> \o BigOf(n \div Base)

\* The value of a number that fits a machine integer.
RECURSIVE BigToInt(_)
BigToInt(a) == IF a = <<>> THEN 0 ELSE Head(a) + Base * BigToInt(Tail(a))

\* The digits without the zeros at the most significant end.
RECURSIVE BigTrim(_)
BigTrim(a) ==
    IF a = <<>> THEN <<>>
    ELSE IF a[Len(a)] = 0 THEN BigTrim(SubSeq(a, 1, Len(a) - 1))
    ELSE a

\* The number whose digits are a, each possibly above Base, plus the carry c.
RECURSIVE BigCarry(_, _)
BigCarry(a, c) ==
    IF a = <<>> THEN BigOf(c)
    ELSE <<(Head(a) + c) % Base>> \o BigCarry(Tail(a), (Head(a) + c) \div Base)

BigAdd(a, b) ==
    LET digit(x, i) == IF i <= Len(x) THEN x[i] ELSE 0
    IN  BigCarry([i \in 1..Max2(Len(a), Len(b)) |-> digit(a, i) + digit(b, i)], 0)

\* a - b for a >= b.
RECURSIVE BigBorrow(_, _, _)
BigBorrow(a, b, c) ==
    IF a = <<>> THEN <<>>
    ELSE LET d == Head(a) - (IF b = <<>> THEN 0 ELSE Head(b)) - c
         IN  <<d % Base>>
             \o BigBorrow(Tail(a), IF b = <<>> THEN <<>> ELSE Tail(b),
                          IF d < 0 THEN 1 ELSE 0)

BigSub(a, b) == BigTrim(BigBorrow(a, b, 0))

\* The product, one column of digit products at a time.
RECURSIVE BigColumn(_, _, _, _)
BigColumn(a, b, m, i) ==
    IF i > Len(a) \/ i > m THEN 0
    ELSE (IF m + 1 - i <= Len(b) THEN a[i] * b[m + 1 - i] ELSE 0)
         + BigColumn(a, b, m, i + 1)

RECURSIVE BigColumns(_, _, _, _)
BigColumns(a, b, m, c) ==
    IF m > Len(a) + Len(b) - 1 THEN BigOf(c)
    ELSE LET t == BigColumn(a, b, m, 1) + c
         IN  <<t % Base>> \o BigColumns(a, b, m + 1, t \div Base)

BigMul(a, b) ==
    IF a = <<>> \/ b = <<>> THEN <<>> ELSE BigColumns(a, b, 1, 0)

RECURSIVE BigLess(_, _)
BigLess(a, b) ==
    IF Len(a) # Len(b) THEN Len(a) < Len(b)
    ELSE IF a = <<>> THEN FALSE
    ELSE IF a[Len(a)] # b[Len(b)] THEN a[Len(a)] < b[Len(b)]
    ELSE BigLess(SubSeq(a, 1, Len(a) - 1), SubSeq(b, 1, Len(b) - 1))

\* The number of bits of a digit, and of a number.
RECURSIVE DigitBits(_)
DigitBits(d) == IF d = 0 THEN 0 ELSE 1 + DigitBits(d \div 2)

BigBits(a) ==
    IF a = <<>> THEN 0 ELSE LimbBits * (Len(a) - 1) + DigitBits(a[Len(a)])

\* a * 2^n.
BigShl(a, n) ==
    IF a = <<>> THEN <<>>
    ELSE LET f == 2 ^ (n % LimbBits)
         IN  [i \in 1..(n \div LimbBits) |-> 0]
             \o BigCarry([i \in 1..Len(a) |-> a[i] * f], 0)

\* floor(a / 2^n).
BigShr(a, n) ==
    LET q == n \div LimbBits
        f == 2 ^ (n % LimbBits)
        g == 2 ^ (LimbBits - (n % LimbBits))
        digit(i) == IF i <= Len(a) THEN a[i] ELSE 0
    IN  IF Len(a) <= q THEN <<>>
        ELSE BigTrim([i \in 1..(Len(a) - q) |->
                         (digit(i + q) \div f) + (digit(i + q + 1) % f) * g])

\* The number of zero bits at the least significant end of a number # 0.
RECURSIVE DigitZeros(_)
DigitZeros(d) == IF d % 2 = 1 THEN 0 ELSE 1 + DigitZeros(d \div 2)

RECURSIVE BigZeros(_)
BigZeros(a) ==
    IF Head(a) = 0 THEN LimbBits + BigZeros(Tail(a)) ELSE DigitZeros(Head(a))

\* Quotient and remainder of a by a divisor d below 2^17, digit by digit
\* from the most significant end.
RECURSIVE BigDivSmallFrom(_, _, _)
BigDivSmallFrom(a, d, i) ==
    IF i > Len(a) THEN [q |-> <<>>, r |-> 0]
    ELSE LET up == BigDivSmallFrom(a, d, i + 1)
             cur == up.r * Base + a[i]
         IN  [q |-> <<cur \div d>> \o up.q, r |-> cur % d]

\* Quotient and remainder of a by any b # 0, bit by bit: the bits hi down to
\* lo of the quotient, the range halved at each step.
RECURSIVE BigDivBits(_, _, _, _)
BigDivBits(a, b, hi, lo) ==
    IF hi < lo THEN [q |-> <<>>, r |-> a]
    ELSE IF hi = lo
    THEN LET s == BigShl(b, hi)
         IN  IF BigLess(a, s) THEN [q |-> <<>>, r |-> a]
             ELSE [q |-> BigShl(<<1>>, hi), r |-> BigSub(a, s)]
    ELSE LET mid == (hi + lo) \div 2
             upper == BigDivBits(a, b, hi, mid + 1)
         IN  IF upper.r = <<>> THEN upper
             ELSE LET lower == BigDivBits(upper.r, b, mid, lo)
                  IN  [q |-> BigAdd(upper.q, lower.q), r |-> lower.r]

\* floor(sqrt(a)), bit by bit from the most significant end: r with its
\* bits hi down to lo decided, the range halved at each step.
RECURSIVE BigSqrtBits(_, _, _, _)
BigSqrtBits(a, r, hi, lo) ==
    IF hi < lo THEN r
    ELSE IF hi = lo
    THEN LET t == BigAdd(r, BigShl(<<1>>, hi))
         IN  IF BigLess(a, BigMul(t, t)) THEN r ELSE t
    ELSE LET mid == (hi + lo) \div 2
             upper == BigSqrtBits(a, r, hi, mid + 1)
         IN  IF upper = <<>> THEN BigSqrtBits(a, <<>>, mid, lo)
             ELSE BigSqrtBits(a, upper, mid, lo)

(***************************************************************************)
(* Python's float: an IEEE 754 double.  A finite double is a record        *)
(* [neg, m, e] that stands for (-1)^neg * m * 2^e, with m odd (or zero,    *)
(* and then e = 0) and of at most Precision bits.  Every operation returns *)
(* the exact result rounded to the nearest double, ties to the even one,   *)
(* as the hardware does.  The numbers of the model stay far from the       *)
(* overflow and the underflow thresholds, which are not modelled.          *)
(***************************************************************************)
Precision == 53

FZero == [neg |-> FALSE, m |-> <<>>, e |-> 0]

IsZero(x) == x.m = <<>>

\* The record of the number (-1)^neg * m * 2^e, for m of at most Precision
\* bits.
Double(neg, m, e) ==
    IF m = <<>> THEN [neg |-> neg, m |-> <<>>, e |-> 0]
    ELSE LET z == BigZeros(m)
         IN  [neg |-> neg, m |-> BigShr(m, z), e |-> e + z]

\* The double nearest to (-1)^neg * (m + d) * 2^e, where 0 <= d < 1 and
\* sticky tells whether d # 0; a sticky m has more than Precision + 1 bits.
FRound(neg, m, e, sticky) ==
    LET t == BigBits(m) - Precision
        \* q is m without its last t bits, rem is these bits and half the
        \* middle of their range.
        ToNearest(q, rem, half) ==
            LET up == \/ BigLess(half, rem)
                      \/ rem = half /\ (sticky \/ q[1] % 2 = 1)
            IN  Double(neg, IF up THEN BigAdd(q, <<1>>) ELSE q, e + t)
        Cut(q) == ToNearest(q, BigSub(m, BigShl(q, t)), BigShl(<<1>>, t - 1))
    IN  IF t <= 0 THEN Double(neg, m, e) ELSE Cut(BigShr(m, t))

\* float(n) for an integer n.
FInt(n) == Double(n < 0, BigOf(IF n < 0 THEN -n ELSE n), 0)

FNeg(x) == [neg |-> ~x.neg, m |-> x.m, e |-> x.e]

\* a < b: by the signs, then by the magnitudes, which are in the order of
\* their highest bits or, these equal, of their mantissas at one exponent.
FLess(a, b) ==
    LET MagLess(x, y) ==
            LET tx == BigBits(x.m) + x.e
                ty == BigBits(y.m) + y.e
                e == Min2(x.e, y.e)
            IN  IF tx # ty THEN tx < ty
                ELSE BigLess(BigShl(x.m, x.e - e), BigShl(y.m, y.e - e))
    IN  IF IsZero(a) THEN ~IsZero(b) /\ ~b.neg
        ELSE IF IsZero(b) THEN a.neg
        ELSE IF a.neg # b.neg THEN a.neg
        ELSE MagLess(IF a.neg THEN b ELSE a, IF a.neg THEN a ELSE b)

\* a + b
FAdd(a, b) ==
    IF IsZero(a) THEN (IF IsZero(b) THEN [FZero EXCEPT !.neg = a.neg /\ b.neg] ELSE b)
    ELSE IF IsZero(b) THEN a
    ELSE LET e == Min2(a.e, b.e)
             \* x and y are the mantissas at the exponent e: the sum has the
             \* sign of the larger one.
             Sum(x, y) ==
                 IF a.neg # b.neg /\ x = y THEN FZero
                 ELSE FRound(IF a.neg = b.neg \/ BigLess(y, x) THEN a.neg ELSE b.neg,
                             IF a.neg = b.neg THEN BigAdd(x, y)
                             ELSE IF BigLess(x, y) THEN BigSub(y, x)
                             ELSE BigSub(x, y),
                             e, FALSE)
         IN  Sum(BigShl(a.m, a.e - e), BigShl(b.m, b.e - e))

\* a - b
FSub(a, b) == FAdd(a, FNeg(b))

\* a * b
FMul(a, b) ==
    IF IsZero(a) \/ IsZero(b) THEN [FZero EXCEPT !.neg = (a.neg # b.neg)]
    ELSE FRound(a.neg # b.neg, BigMul(a.m, b.m), a.e + b.e, FALSE)

\* a / b for b # 0: the quotient of the mantissas to Precision + 2 bits or
\* more, and whether the division left a remainder.  A divisor below 2^17
\* divides digit by digit, a larger one bit by bit.
FDiv(a, b) ==
    IF IsZero(a) THEN [FZero EXCEPT !.neg = (a.neg # b.neg)]
    ELSE LET n == Max2(0, Precision + 2 + BigBits(b.m) - BigBits(a.m))
             Quotient(d) == FRound(a.neg # b.neg, d.q, a.e - b.e - n, d.r # <<>>)
             BySmall(d) == [q |-> BigTrim(d.q), r |-> BigOf(d.r)]
             Divide(num) ==
                 IF BigBits(b.m) <= 17
                 THEN BySmall(BigDivSmallFrom(num, BigToInt(b.m), 1))
                 ELSE BigDivBits(num, b.m, Max2(BigBits(num) - BigBits(b.m), 0), 0)
         IN  Quotient(Divide(BigShl(a.m, n)))

\* The double of the decimal literal n/d (n >= 0, d a power of ten).
FDec(n, d) == FDiv(FInt(n), FInt(d))

\* math.sqrt(a) for a >= 0: the root of the mantissa, shifted to an even
\* exponent and to twice Precision + 2 bits or more.
FSqrt(a) ==
    IF IsZero(a) THEN a
    ELSE LET n0 == Max2(0, 2 * (Precision + 2) - BigBits(a.m))
             n == IF (a.e - n0) % 2 = 0 THEN n0 ELSE n0 + 1
             Rounded(s, r) == FRound(FALSE, r, (a.e - n) \div 2, BigMul(r, r) # s)
             Root(s) == Rounded(s, BigSqrtBits(s, <<>>, BigBits(s) \div 2, 0))
         IN  Root(BigShl(a.m, n))

\* A variant of int() that rounds down instead of cutting toward zero.
FFloor(a) ==
    LET mag == IF a.e >= 0 THEN BigToInt(BigShl(a.m, a.e))
               ELSE BigToInt(BigShr(a.m, -a.e))
    IN  IF a.neg THEN (IF a.e >= 0 THEN -mag ELSE -mag - 1) ELSE mag

\* int(a): the integer part, cut toward zero.
FTrunc(a) ==
    LET mag == IF a.e >= 0 THEN BigToInt(BigShl(a.m, a.e))
               ELSE BigToInt(BigShr(a.m, -a.e))
    IN  IF a.neg THEN -mag ELSE mag

\* a ** 2.  C's pow is not correctly rounded: its result is within one unit
\* in the last place of the exact square.  glibc documents an error below
\* 0.54 units, so where the exact square lies within a 16th of a unit of
\* the middle of two doubles, either of them may be returned; elsewhere the
\* nearest one is.
FSquare(x) ==
    IF IsZero(x) THEN {FZero}
    ELSE LET \* The doubles below and above q + rem / 2^t, in units of
             \* 2^(2 * x.e + t).
             Either(t, q, rem, half) ==
                 LET gap == IF BigLess(rem, half) THEN BigSub(half, rem)
                            ELSE BigSub(rem, half)
                     down == Double(FALSE, q, 2 * x.e + t)
                     up == Double(FALSE, BigAdd(q, <<1>>), 2 * x.e + t)
                 IN  IF BigLess(BigShl(<<1>>, t), BigMul(gap, BigOf(16)))
                     THEN {IF BigLess(rem, half) THEN down ELSE up}
                     ELSE {down, up}
             Parts(m, t, q) == Either(t, q, BigSub(m, BigShl(q, t)), BigShl(<<1>>, t - 1))
             Rounded(m, t) ==
                 IF t <= 0 THEN {Double(FALSE, m, 2 * x.e)}
                 ELSE Parts(m, t, BigShr(m, t))
             Square(m) == Rounded(m, BigBits(m) - Precision)
         IN  Square(BigMul(x.m, x.m))

\* The built-in sum(items) of a list of floats, which starts from 0.  Up to
\* CPython 3.11 every item is added to the total, rounded each time.  From
\* CPython 3.12 on the sum is compensated (Neumaier): for every item x and
\* t = total + x it adds the rounding error of the addition to c, which is
\* (total - t) + x where total is of no smaller magnitude than x and
\* (x - t) + total where it is smaller, and at the end it adds c to the
\* total.  (The compensation starts with the second item; the first
\* addition, to 0, is exact.  A c of zero is not added, which makes no
\* difference to a total that is not -0.0.)
sum(items, neumaier) ==
    LET RECURSIVE From(_, _, _)
        From(i, total, c) ==
            IF i > Len(items) THEN FAdd(total, c)
            ELSE From(i + 1, FAdd(total, items[i]),
                      IF ~neumaier THEN FZero
                      ELSE FAdd(c, FAdd(FSub(IF FLess([total EXCEPT !.neg = FALSE],
                                                      [items[i] EXCEPT !.neg = FALSE])
                                             THEN items[i] ELSE total,
                                             FAdd(total, items[i])),
                                        IF FLess([total EXCEPT !.neg = FALSE],
                                                 [items[i] EXCEPT !.neg = FALSE])
                                        THEN total ELSE items[i])))
    IN  From(1, FZero, FZero)

(***************************************************************************)
(* utils/color.py : infer_palette                                          *)
(***************************************************************************)
Dim == 3            \* Point.n, the dimension of a YUV point
MinDiff == 1        \* the min_diff infer_palette passes to kmeans

\* The colours of the images kmeans is studied on: black, two blues of
\* which the darker lies midway between black and the other, a purple and a
\* red.
PointColors ==
    << <<0, 0, 0>>, <<0, 0, 128>>, <<0, 0, 64>>, <<192, 0, 160>>, <<255, 0, 32>> >>

\* img.getcolors(w * h), line 83: the <<count, color>> pairs of an image
\* that has cts[i] pixels of colour i of PointColors, for the i of S.
getcolors(S, cts) ==
    LET idx == SortedSeq(S)
    IN  [i \in 1..Len(idx) |-> <<cts[idx[i]], PointColors[idx[i]]>>]

\* Point(coords, n, ct): coords are floats, ct is the pixel count.
Point(coords, n, ct) == [coords |-> coords, n |-> n, ct |-> ct]

\* A variant of rgb_to_yuv that returns the two chroma coordinates swapped.
rgb_to_yvu(rgb) ==
    LET r == FInt(rgb[1])
        g == FInt(rgb[2])
        b == FInt(rgb[3])
    IN  << FAdd(FAdd(FMul(FDec(299, 1000), r), FMul(FDec(587, 1000), g)),
                FMul(FDec(114, 1000), b)),
           FSub(FSub(FMul(FDec(615, 1000), r), FMul(FDec(51499, 100000), g)),
                FMul(FDec(10001, 100000), b)),
           FAdd(FSub(FMul(FNeg(FDec(14713, 100000)), r), FMul(FDec(28886, 100000), g)),
                FMul(FDec(436, 1000), b)) >>

\* rgb_to_yuv (BT.601), lines 66-70:
\*   y = 0.299 * r + 0.587 * g + 0.114 * b
\*   u = -0.14713 * r - 0.28886 * g + 0.436 * b
\*   v = 0.615 * r - 0.51499 * g - 0.10001 * b
\* on the integers r, g, b, every product and sum rounded as a float.
rgb_to_yuv(rgb) ==
    LET r == FInt(rgb[1])
        g == FInt(rgb[2])
        b == FInt(rgb[3])
    IN  << FAdd(FAdd(FMul(FDec(299, 1000), r), FMul(FDec(587, 1000), g)),
                FMul(FDec(114, 1000), b)),
           FAdd(FSub(FMul(FNeg(FDec(14713, 100000)), r), FMul(FDec(28886, 100000), g)),
                FMul(FDec(436, 1000), b)),
           FSub(FSub(FMul(FDec(615, 1000), r), FMul(FDec(51499, 100000), g)),
                FMul(FDec(10001, 100000), b)) >>

\* get_points, lines 80-86, over the <<count, color>> pairs of
\* img.getcolors(): one Point per distinct colour of the image, at the YUV
\* coordinates of the colour, with its count.
get_points(colors) ==
    [i \in 1..Len(colors) |-> Point(rgb_to_yuv(colors[i][2]), Dim, colors[i][1])]

\* [(p1.coords[i] - p2.coords[i]) ** 2 for i in range(p1.n)], from
\* coordinate i on: the lists the comprehension may build.
RECURSIVE Squares(_, _, _)
Squares(p1, p2, i) ==
    IF i > p1.n THEN {<<>>}
    ELSE {<<sq>> \o rest : sq \in FSquare(FSub(p1.coords[i], p2.coords[i])),
                           rest \in Squares(p1, p2, i + 1)}

\* euclidean(p1, p2), lines 88-89: the values the call may return on an
\* interpreter whose sum() is compensated (neumaier) or plain.
euclidean(p1, p2, neumaier) ==
    {FSqrt(sum(squares, neumaier)) : squares \in Squares(p1, p2, 1)}

\* The position of the highest bit of a float.
FTop(x) == IF x.m = <<>> THEN -1100 ELSE BigBits(x.m) + x.e

\* Integer bounds of a float x in units of 2^-s: lo <= x * 2^s <= hi.
Scaled(x, s) ==
    IF IsZero(x) THEN <<0, 0>>
    ELSE IF x.e + s >= 0
    THEN LET v == BigToInt(BigShl(x.m, x.e + s))
         IN  IF x.neg THEN <<-v, -v>> ELSE <<v, v>>
    ELSE LET q == BigToInt(BigShr(x.m, -(x.e + s)))
         IN  IF x.neg THEN <<-q - 1, -q>> ELSE <<q, q + 1>>

\* Bounds, in units of 4^-s, of the exact squared distance of two points.
RECURSIVE DistanceBounds(_, _, _, _)
DistanceBounds(p1, p2, s, i) ==
    IF i > p1.n THEN <<0, 0>>
    ELSE LET \* Bounds of the square of a number between lo and hi.
             Squared(lo, hi) ==
                 IF lo >= 0 THEN <<lo * lo, hi * hi>>
                 ELSE IF hi <= 0 THEN <<hi * hi, lo * lo>>
                 ELSE <<0, Max2(lo * lo, hi * hi)>>
             Apart(a, b) == Squared(a[1] - b[2], a[2] - b[1])
             Sum(sq, rest) == <<sq[1] + rest[1], sq[2] + rest[2]>>
         IN  Sum(Apart(Scaled(p1.coords[i], s), Scaled(p2.coords[i], s)),
                 DistanceBounds(p1, p2, s, i + 1))

\* The largest s for which the coordinates of the points, in units of 2^-s,
\* stay below 2^13 (their squared distances then fit a machine integer), or
\* -1 when there is none.
RECURSIVE TopOf(_, _)
TopOf(p, i) == IF i > p.n THEN 0 ELSE Max2(FTop(p.coords[i]), TopOf(p, i + 1))

ScaleOf(ps) ==
    LET top == CHOOSE t \in {TopOf(ps[j], 1) : j \in 1..Len(ps)} :
                   \A j \in 1..Len(ps) : TopOf(ps[j], 1) <= t
    IN  IF top > 13 THEN -1 ELSE 13 - top

\* euclidean(p, c1) < euclidean(p, c2): the values the comparison may have,
\* on an interpreter of either sum().
\* The floats differ from the exact distances by rounding errors below
\* 2^-45 of their size: where the bounds of the exact squared distances are
\* apart by a unit of 4^-s, at least 2^-31 of their size, the comparison of
\* the floats is that of the bounds; where both bounds are exact the floats
\* are exact too.  Otherwise the floats are computed.
Closer(p, c1, c2) ==
    LET s == ScaleOf(<<p, c1, c2>>)
        \* b1 and b2 bound the exact squared distances to c1 and to c2.
        Decide(b1, b2) ==
            IF s >= 0 /\ b1[2] < b2[1] THEN {TRUE}
            ELSE IF s >= 0 /\ (b2[2] < b1[1] \/ (b1[1] = b1[2] /\ b2[1] = b2[2]))
            THEN {FALSE}
            ELSE UNION {{FLess(a, b) : a \in euclidean(p, c1, neumaier),
                                       b \in euclidean(p, c2, neumaier)} :
                           neumaier \in BOOLEAN}
    IN  Decide(DistanceBounds(p, c1, s, 1), DistanceBounds(p, c2, s, 1))

\* A variant of calculate_center that gives every point the weight 1.
calculate_center_unweighted(pts) ==
    LET plen == Len(pts)
        RECURSIVE Vals(_, _, _)
        Vals(i, j, acc) ==
            IF j > Len(pts) THEN acc
            ELSE Vals(i, j + 1, FAdd(acc, pts[j].coords[i]))
    IN  Point([i \in 1..Dim |-> FDiv(Vals(i, 1, FZero), FInt(plen))], Dim, 1)

\* calculate_center, lines 91-98, for a non-empty list of points: vals[i]
\* is 0.0 plus p.coords[i] * p.ct for each point in turn, the centre is
\* vals[i] / plen.  (On an empty list the division raises.)
calculate_center(pts) ==
    LET plen == SumSeq([j \in 1..Len(pts) |-> pts[j].ct])
        RECURSIVE Vals(_, _, _)
        Vals(i, j, acc) ==
            IF j > Len(pts) THEN acc
            ELSE Vals(i, j + 1, FAdd(acc, FMul(pts[j].coords[i], FInt(pts[j].ct))))
    IN  Point([i \in 1..Dim |-> FDiv(Vals(i, 1, FZero), FInt(plen))], Dim, 1)

\* A variant of the scan in which a cluster at an equal distance also
\* replaces idx, so the last nearest centre wins.
RECURSIVE NearestLast(_, _, _, _)
NearestLast(p, cls, i, idx) ==
    IF i > Len(cls) THEN {idx}
    ELSE UNION {IF ~farther THEN NearestLast(p, cls, i + 1, i)
                ELSE NearestLast(p, cls, i + 1, idx) :
                    farther \in IF idx = 0 THEN {FALSE}
                                ELSE Closer(p, cls[idx].center, cls[i].center)}

\* The scan of lines 107-112 from cluster i on, idx being the cluster of
\* the smallest distance so far (0: none yet, the distance is infinite): idx
\* is replaced only by a cluster at a strictly smaller distance, so the
\* first nearest centre wins.  The result is the set of the indices the scan
\* may end with.
RECURSIVE NearestFrom(_, _, _, _)
NearestFrom(p, cls, i, idx) ==
    IF i > Len(cls) THEN {idx}
    ELSE UNION {IF nearer THEN NearestFrom(p, cls, i + 1, i)
                ELSE NearestFrom(p, cls, i + 1, idx) :
                    nearer \in IF idx = 0 THEN {TRUE}
                               ELSE Closer(p, cls[i].center, cls[idx].center)}

\* The cluster indices the points may get, one choice per point.
RECURSIVE Choices(_, _)
Choices(sets, j) ==
    IF j > Len(sets) THEN {<<>>}
    ELSE {<<i>> \o rest : i \in sets[j], rest \in Choices(sets, j + 1)}

\* plists, lines 104-113: the lists the pass may build.
Assign(pts, cls) ==
    LET near == [j \in 1..Len(pts) |-> NearestFrom(pts[j], cls, 1, 0)]
    IN  {[i \in 1..Len(cls) |->
             LET mine == SelectSeq([j \in 1..Len(pts) |-> j], LAMBDA j : idx[j] = i)
             IN  [t \in 1..Len(mine) |-> pts[mine[t]]]] :
            idx \in Choices(near, 1)}

\* "%02x" % n : lower-case hex digits, a minus sign for a negative number,
\* padded with zeros up to two characters.
HexDigit == <<"0", "1", "2", "3", "4", "5", "6", "7",
              "8", "9", "a", "b", "c", "d", "e", "f">>

RECURSIVE HexDigits(_)
HexDigits(n) ==
    IF n < 16 THEN <<HexDigit[n + 1]>>
    ELSE HexDigits(n \div 16) \o <<HexDigit[(n % 16) + 1]>>

Format02x(n) ==
    LET body == IF n < 0 THEN <<"-">> \o HexDigits(-n) ELSE HexDigits(n)
    IN  IF Len(body) >= 2 THEN body
        ELSE IF n < 0 THEN <<"-", "0">> \o HexDigits(-n)
        ELSE <<"0">> \o body

\* A variant of yuv_to_hex with the inverse coefficients of BT.709.
yuv_to_hex_bt709(c) ==
    LET y == c.coords[1]
        u == c.coords[2]
        v == c.coords[3]
        r == FAdd(y, FMul(FDec(128033, 100000), v))
        g == FSub(FSub(y, FMul(FDec(21482, 100000), u)), FMul(FDec(38059, 100000), v))
        b == FAdd(y, FMul(FDec(212798, 100000), u))
    IN  <<"#">> \o Format02x(FTrunc(r)) \o Format02x(FTrunc(g)) \o Format02x(FTrunc(b))

\* yuv_to_hex, lines 73-81:
\*   r = y + 1.13983 * v
\*   g = y - 0.39465 * u - 0.58060 * v
\*   b = y + 2.03211 * u
\*   "#%02x%02x%02x" % (int(r), int(g), int(b))
yuv_to_hex(c) ==
    LET y == c.coords[1]
        u == c.coords[2]
        v == c.coords[3]
        r == FAdd(y, FMul(FDec(113983, 100000), v))
        g == FSub(FSub(y, FMul(FDec(39465, 100000), u)), FMul(FDec(58060, 100000), v))
        b == FAdd(y, FMul(FDec(203211, 100000), u))
    IN  <<"#">> \o Format02x(FTrunc(r)) \o Format02x(FTrunc(g)) \o Format02x(FTrunc(b))

\* A variant of PaletteOf that lists one colour per assigned point instead
\* of one per cluster.
RECURSIVE PaletteOfPerPoint(_)
PaletteOfPerPoint(cls) ==
    IF cls = <<>> THEN <<>>
    ELSE [j \in 1..Len(Head(cls).points) |-> yuv_to_hex(Head(cls).points[j])]
         \o PaletteOfPerPoint(Tail(cls))

\* infer_palette, lines 133-134: one hex colour per cluster centre.
PaletteOf(cls) == [i \in 1..Len(cls) |-> yuv_to_hex(cls[i].center)]

\* No call on the store yet.
NoCall == [fn |-> "none", outcome |-> "none", id |-> <<>>, result |-> <<>>,
           extracted |-> FALSE]

\* The components other than the one under study: they are idle, and stay
\* so.
Others(studied) ==
    /\ IF studied = "infer_palette" THEN TRUE
       ELSE /\ points = <<>>
            /\ k = 0
            /\ clusters = <<>>
            /\ kpc = "idle"
            /\ iters = 0
            /\ palette = <<>>
    /\ IF studied = "get_varying_colors" THEN TRUE
       ELSE /\ gvColors = <<>>
            /\ gvN = 0
            /\ gvpc = "idle"
            /\ gvResult = <<>>
    /\ IF studied = "ranking" THEN TRUE
       ELSE /\ rkStore = <<>>
            /\ rkCall = <<>>
            /\ rkpc = "idle"
            /\ rkFiltered = <<>>
            /\ rkCandidates = <<>>
            /\ rkRanked = <<>>
            /\ rkResult = <<>>
            /\ compensated = FALSE
    /\ IF studied = "estimate_colors" THEN TRUE
       ELSE /\ ecColors = <<>>
            /\ ecpc = "idle"
            /\ ecResult = <<>>
    /\ IF studied = "store" THEN TRUE
       ELSE /\ wsRecords = {}
            /\ wsImages = {}
            /\ wsCall = [NoCall EXCEPT !.fn = "idle"]
    /\ IF studied = "determine_wallpapers_to_set" THEN TRUE
       ELSE /\ dwArgs = <<>>
            /\ dwpc = "idle"
            /\ dwResult = <<>>

InitKMeans ==
    /\ Others("infer_palette")
    /\ \E S \in (SUBSET (1..Len(PointColors))) \ {{}} :
          /\ Cardinality(S) <= MaxPoints
          /\ \E cts \in [S -> 1..MaxCount] : points = get_points(getcolors(S, cts))
    /\ k \in 1..MaxK
    /\ clusters = <<>>
    /\ kpc = "seed"
    /\ iters = 0
    /\ palette = <<>>

\* kmeans, line 101: random.sample(points, k) raises ValueError when k is
\* larger than the population; otherwise every cluster starts on its own point.
SeedRaise ==
    /\ kpc = "seed"
    /\ k > Len(points)
    /\ kpc' = "raised"
    /\ UNCHANGED <<points, k, clusters, iters, palette>>
    /\ UNCHANGED <<gvVars, rkVars, ecVars, wsVars, dwVars>>

Seed ==
    /\ kpc = "seed"
    /\ k <= Len(points)
    /\ \E s \in Samples(Len(points), k) :
          clusters' = [i \in 1..k |->
                          [points |-> <<points[s[i]]>>, center |-> points[s[i]]]]
    /\ kpc' = "loop"
    /\ UNCHANGED <<points, k, iters, palette>>
    /\ UNCHANGED <<gvVars, rkVars, ecVars, wsVars, dwVars>>

\* The clusters as lines 116-120 leave them: cluster i is replaced in place
\* by the one rebuilt from plists[i], one cluster after the other, up to the
\* first empty plist, on which calculate_center raises; the clusters from
\* there on are still the old ones.
NewClusters(old, plists) ==
    LET stop == IF \E i \in 1..Len(plists) : plists[i] = <<>>
                THEN CHOOSE i \in 1..Len(plists) :
                         /\ plists[i] = <<>>
                         /\ \A j \in 1..(i - 1) : plists[j] # <<>>
                ELSE Len(plists) + 1
    IN  [i \in 1..Len(plists) |->
            IF i < stop
            THEN [points |-> plists[i], center |-> calculate_center(plists[i])]
            ELSE old[i]]

\* diff < min_diff, lines 115-123: every centre moved by less than min_diff,
\* euclidean(old.center, new.center) < min_diff, decided on the bounds of
\* the exact distance where Closer does so.  The values the test may have,
\* on an interpreter of either sum().
DiffBelow(old, new) ==
    LET Below(c1, c2) ==
            LET s == ScaleOf(<<c1, c2>>)
                one == (4 ^ s) * MinDiff * MinDiff
                Decide(b) ==
                    IF s >= 0 /\ b[2] < one THEN {TRUE}
                    ELSE IF s >= 0 /\ (one < b[1] \/ (b[1] = b[2] /\ b[1] = one))
                    THEN {FALSE}
                    ELSE UNION {{FLess(a, FInt(MinDiff)) :
                                        a \in euclidean(c1, c2, neumaier)} :
                                   neumaier \in BOOLEAN}
            IN  Decide(DistanceBounds(c1, c2, s, 1))
        Every(below) ==
            {b \in BOOLEAN : IF b THEN \A i \in 1..Len(old) : TRUE \in below[i]
                                  ELSE \E i \in 1..Len(old) : FALSE \in below[i]}
    IN  Every([i \in 1..Len(old) |-> Below(old[i].center, new[i].center)])

\* One pass of the while loop, lines 104-124.  calculate_center divides by
\* the total count of its points: an empty plist is a ZeroDivisionError, which
\* leaves kmeans and infer_palette with the clusters before it replaced.  On
\* diff < min_diff the loop breaks and infer_palette converts the centres
\* (lines 133-134).
Iterate ==
    /\ kpc = "loop"
    /\ iters' = iters + 1
    /\ UNCHANGED <<gvVars, rkVars, ecVars, wsVars, dwVars>>
    /\ UNCHANGED <<points, k>>
    /\ \E plists \in Assign(points, clusters) :
       \E new \in {NewClusters(clusters, plists)} :
          /\ clusters' = new
          /\ IF \E i \in 1..k : plists[i] = <<>>
             THEN /\ kpc' = "raised"
                  /\ palette' = palette
             ELSE \E below \in DiffBelow(clusters, new) :
                     IF below
                     THEN /\ kpc' = "returned"
                          /\ palette' = PaletteOf(new)
                     ELSE /\ kpc' = "loop"
                          /\ palette' = palette

NextKMeans == SeedRaise \/ Seed \/ Iterate

SpecKMeans == InitKMeans /\ [][NextKMeans]_vars

\* infer_palette on images of real colours: every pixel of one colour, or
\* two colours side by side.  img.getcolors() lists <<count, color>> pairs.
Black == <<0, 0, 0>>

White == <<255, 255, 255>>

SteelBlue == <<51, 102, 153>>     \* "#336699"

\* The images: of one colour, its channels among seven values, and of two
\* of three colours.
Images ==
    {<< <<n, c>> >> : n \in 1..MaxPixels,
                      c \in [1..3 -> {0, 1, 3, 127, 195, 254, 255}] \cup {SteelBlue}}
    \cup {img \in [1..2 -> (1..MaxPixels) \X {Black, White, SteelBlue}] :
              img[1][2] # img[2][2]}

\* The images with their points, get_points(img.getcolors(...)), computed
\* once: a set of <<image, points>>.
ImagePoints == {<<img, get_points(img)>> : img \in Images}

InitImage ==
    /\ Others("infer_palette")
    /\ \E t \in ImagePoints : points = t[2]
    /\ k \in 1..MaxK
    /\ clusters = <<>>
    /\ kpc = "seed"
    /\ iters = 0
    /\ palette = <<>>

SpecImage == InitImage /\ [][NextKMeans]_vars

\* A step of kmeans, told by what it leaves behind: the seeding leaves the
\* position "seed", a pass of the loop counts one iteration more.  It can
\* be taken exactly where NextKMeans can, in the positions "seed" and
\* "loop", and every step of NextKMeans is one.
KMeansStep ==
    /\ kpc \in {"seed", "loop"}
    /\ kpc' \in {"loop", "returned", "raised"}
    /\ iters' \in {iters, iters + 1}
    /\ (kpc = "loop") => (iters' = iters + 1)

\* kmeans runs to its end once called: a pass that can run does run.
FairSpecKMeans == SpecKMeans /\ WF_<<kpc, iters>>(KMeansStep)

(***************************************************************************)
(* Properties of infer_palette.                                            *)
(***************************************************************************)

\* C1: the k-means loop terminates for every non-empty set of weighted
\* points and every k >= 1: a pass whose largest centre displacement is
\* below the threshold is eventually reached and the function returns.
C1_Terminates == <>(kpc = "returned")

\* The loop itself never runs forever: every call ends, by a return or by
\* an exception.
KMeansEnds == <>(kpc \in {"returned", "raised"})

\* C2: a requested size k larger than the number of distinct colours does
\* not raise; the call returns a palette.
C2_NoRaiseOnShortage == (k > Len(points)) => (kpc # "raised")

\* C3: whenever infer_palette returns, the palette has at most k entries.
C3_PaletteAtMostK == (kpc = "returned") => (Len(palette) <= k)

\* A call that returned after more than one pass, with several clusters and
\* more points than clusters.
C3_Witness ==
    /\ kpc = "returned"
    /\ iters >= 2
    /\ k >= 2
    /\ Len(points) > k
    /\ Len(palette) = k

(***************************************************************************)
(* Colours and colormath.                                                  *)
(*                                                                         *)
(* A colour is one of a sample of hex strings, named by a number: the     *)
(* strings 1 to 5 are the colours the program is given, string 6 is one    *)
(* that only colormath writes.  The conversions between hex and Lab and    *)
(* delta_e_cie2000 are colormath's, which is not part of the repository:   *)
(* the model has what they give on the sample as tables.  The differences  *)
(* are in whole delta-E units; the table is symmetric, zero exactly on     *)
(* strings of the same colour, and has pairs below, at and above the       *)
(* background threshold of 20.  Strings 5 and 6 spell the same colour.     *)
(***************************************************************************)
Colors == 1..5

DeltaTable ==
    << << 0,  1,  4, 20, 24, 24>>,
       << 1,  0,  3, 19, 24, 24>>,
       << 4,  3,  0,  9, 20, 20>>,
       <<20, 19,  9,  0,  4,  4>>,
       <<24, 24, 20,  4,  0,  0>>,
       <<24, 24, 20,  4,  0,  0>> >>

delta_e_cie2000(c1, c2) == DeltaTable[c1][c2]

\* convert_color(lab, sRGBColor).get_rgb_hex(), line 162, for the Lab colour
\* that lines 144-147 made of the hex string c: the string colormath writes
\* for it.  What the round trip gives is colormath's matter; on the sample,
\* the strings 1 to 4 come back as they are and string 5 comes back in
\* another spelling, string 6.
get_rgb_hex(c) == <<1, 2, 3, 4, 6, 6>>[c]

(***************************************************************************)
(* utils/color.py : get_varying_colors                                     *)
(*                                                                         *)
(* lab_colors holds one Lab object per list position and LabColor has no   *)
(* __eq__, so "color not in selected" compares objects: the model keeps    *)
(* selected as a list of positions of colors, 0 standing for None.         *)
(***************************************************************************)
None == 0

\* min(delta_e_cie2000(color, s) for s in selected), line 155.
RECURSIVE MinOver(_, _, _)
MinOver(cols, j, selected) ==
    LET d == delta_e_cie2000(cols[j], cols[Head(selected)])
    IN  IF Len(selected) = 1 THEN d
        ELSE Min2(d, MinOver(cols, j, Tail(selected)))

\* The inner loop, lines 153-158, from position j on: max_color is replaced
\* only by a colour whose min_diff is strictly larger than max_diff.
RECURSIVE FarthestFrom(_, _, _, _, _)
FarthestFrom(cols, selected, j, max_diff, max_color) ==
    IF j > Len(cols) THEN max_color
    ELSE IF j \in Range(selected)
         THEN FarthestFrom(cols, selected, j + 1, max_diff, max_color)
         ELSE LET min_diff == MinOver(cols, j, selected)
              IN  IF min_diff > max_diff
                  THEN FarthestFrom(cols, selected, j + 1, min_diff, j)
                  ELSE FarthestFrom(cols, selected, j + 1, max_diff, max_color)

\* The outer loop, lines 150-159, until n positions are selected; a round
\* starts with max_diff = 0 and max_color = None.  A round that starts with
\* None in selected hands None to delta_e_cie2000, which raises: the rounds
\* stop there, with None left in selected.
RECURSIVE SelectRounds(_, _, _)
SelectRounds(cols, n, selected) ==
    IF Len(selected) >= n \/ None \in Range(selected) THEN selected
    ELSE SelectRounds(cols, n,
                      Append(selected, FarthestFrom(cols, selected, 1, 0, None)))

\* get_varying_colors(colors, n): [raised, colors].  A list of no more than
\* n colours is returned as it is (lines 141-142).  Otherwise line 162
\* converts the selected Lab colours back to hex, each to the string
\* colormath writes for it; convert_color raises on None.
get_varying_colors(cols, n) ==
    IF Len(cols) <= n THEN [raised |-> FALSE, colors |-> cols]
    ELSE LET selected == SelectRounds(cols, n, <<1>>)
         IN  IF None \in Range(selected)
             THEN [raised |-> TRUE, colors |-> <<>>]
             ELSE [raised |-> FALSE,
                   colors |-> [i \in 1..Len(selected) |->
                                  get_rgb_hex(cols[selected[i]])]]

InitVarying ==
    /\ Others("get_varying_colors")
    /\ gvColors \in SeqsUpTo(Colors, MaxColors)
    /\ gvN \in 1..MaxN
    /\ gvpc = "call"
    /\ gvResult = <<>>

VaryingCall ==
    /\ gvpc = "call"
    /\ \E r \in {get_varying_colors(gvColors, gvN)} :
          IF r.raised
          THEN gvpc' = "raised" /\ gvResult' = <<>>
          ELSE gvpc' = "returned" /\ gvResult' = r.colors
    /\ UNCHANGED <<gvColors, gvN>>
    /\ UNCHANGED <<kmVars, rkVars, ecVars, wsVars, dwVars>>

SpecVarying == InitVarying /\ [][VaryingCall]_vars

(***************************************************************************)
(* Properties of get_varying_colors.                                       *)
(***************************************************************************)

\* C4: for every list of colours, repeated colours included, and every
\* n >= 1, get_varying_colors returns exactly min(n, len(colors)) colours,
\* each of them a colour: never None, never an error.
C4_ExactCount ==
    (gvpc \in {"returned", "raised"}) =>
        /\ gvpc = "returned"
        /\ Len(gvResult) = Min2(gvN, Len(gvColors))
        /\ \A i \in 1..Len(gvResult) :
              \E c \in Colors : gvResult[i] \in {c, get_rgb_hex(c)}

(***************************************************************************)
(* theme.py : Variant, and the records of the wallpaper store.             *)
(*                                                                         *)
(* A wallpaper record is the dict read from its JSON file: a function from *)
(* field names to values, in which "colors" or "resolution" may be absent. *)
(* A resolution is the string "<width>x<height>", here a sequence of       *)
(* characters.                                                             *)
(***************************************************************************)
TypeTags == {"dark", "light", "both"}

\* Variant.get_color: self.colors.get(color_name, None).
get_color(variant, color_name) ==
    IF color_name \in DOMAIN variant.colors THEN variant.colors[color_name]
    ELSE None

\* The slots color1 .. color6 read by get_compatible_wallpapers, line 194.
AccentSlots == <<"color1", "color2", "color3", "color4", "color5", "color6">>

\* The colour maps of the scheme variants, without and with a dedicated
\* background slot; the six accent slots hold two colours of the sample.
Variants ==
    LET base == [x \in {"color0"} \cup Range(AccentSlots) |->
                    CASE x = "color0" -> 1
                      [] x \in {"color1", "color3", "color5"} -> 2
                      [] OTHER -> 3]
    IN  [type : {"dark", "light"},
         colors : {base, [x \in DOMAIN base \cup {"background"} |->
                             IF x = "background" THEN 5 ELSE base[x]]}]

\* The scheme_colors list given to rank_wallpapers_by_color_similarity
\* (first colour: the background).
SchemeLists == {<<1, 2, 3>>}

\* The argument p: None (<<>>) or a float <<p>> in (0, 1].
KeepArguments ==
    {<<>>} \cup {<<p>> : p \in {FDec(1, 100), FDec(1, 2), FDiv(FInt(2), FInt(3)),
                                 FDec(1, 1)}}

GoodResolution == <<"2", "x", "1">>
SpacedResolution == <<"2", " ", "x", "U+000B", "1">>
SignedResolution == <<"-", "2", "x", "1">>

\* The name of the records that have one.
WallpaperName == <<"w">>

\* The records a store may hold: analysed wallpapers of every type, one with
\* a six-colour palette, records with defective colour or size data, with
\* a resolution written with whitespace (a space and a vertical tab) or
\* with a sign, and a record without a name.
WallpaperCatalog ==
    [name : {WallpaperName}, type : TypeTags, colors : {<<1, 2, 3>>},
     resolution : {GoodResolution}]
    \cup [name : {WallpaperName}, type : {"dark"},
          colors : {<<4, 5>>, <<1>>, <<2, 2, 2, 2, 2>>},
          resolution : {GoodResolution}]
    \cup [name : {WallpaperName}, type : {"both"},
          colors : {<<2, 1, 3, 4, 5, 1>>, <<>>}, resolution : {GoodResolution}]
    \cup [name : {WallpaperName}, type : {"both"}, colors : {<<1, 2, 3>>},
          resolution : {<<"2", "x">>, SpacedResolution, SignedResolution}]
    \cup [name : {WallpaperName}, type : {"dark"}, resolution : {GoodResolution}]
    \cup [type : {"dark"}, colors : {<<1, 2, 3>>}, resolution : {GoodResolution}]

\* A record with one more field (wallpaper["width"] = width).
WithField(w, name, value) ==
    [f \in DOMAIN w \cup {name} |-> IF f = name THEN value ELSE w[f]]

\* str.split("x"): the pieces of s between the separators.
RECURSIVE SplitX(_, _)
SplitX(s, piece) ==
    IF s = <<>> THEN <<piece>>
    ELSE IF Head(s) = "x" THEN <<piece>> \o SplitX(Tail(s), <<>>)
    ELSE SplitX(Tail(s), Append(piece, Head(s)))

Digits == <<"0", "1", "2", "3", "4", "5", "6", "7", "8", "9">>

\* The characters int() takes for whitespace around a number: the six of
\* ASCII and the spaces and line separators of Unicode.  A character that
\* cannot be written in a string of this language stands under the name of
\* its code point: "U+000B" is the vertical tab.
Whitespace ==
    {" ", "\t", "\n", "\r", "\f", "U+000B", "U+0085", "U+00A0", "U+1680",
     "U+2000", "U+2001", "U+2002", "U+2003", "U+2004", "U+2005", "U+2006",
     "U+2007", "U+2008", "U+2009", "U+200A", "U+2028", "U+2029", "U+202F",
     "U+205F", "U+3000"}

RECURSIVE StripLeft(_)
StripLeft(str) ==
    IF str # <<>> /\ Head(str) \in Whitespace THEN StripLeft(Tail(str)) ELSE str

RECURSIVE StripRight(_)
StripRight(str) ==
    IF str # <<>> /\ str[Len(str)] \in Whitespace
    THEN StripRight(SubSeq(str, 1, Len(str) - 1))
    ELSE str

\* The literal int() reads without the whitespace around it and its sign.
Unsigned(piece) ==
    LET body == StripLeft(StripRight(piece))
    IN  IF body # <<>> /\ Head(body) \in {"+", "-"} THEN Tail(body) ELSE body

\* int(piece) does not raise ValueError: piece is, between whitespace, an
\* optional sign and decimal digits, with single underscores between digits.
\* (int() also reads the decimal digits of other scripts, which no string of
\* the model holds.)
IsNumber(piece) ==
    LET body == Unsigned(piece)
    IN  /\ body # <<>>
        /\ \A i \in 1..Len(body) : body[i] \in Range(Digits) \cup {"_"}
        /\ body[1] # "_"
        /\ body[Len(body)] # "_"
        /\ \A i \in 1..(Len(body) - 1) : ~(body[i] = "_" /\ body[i + 1] = "_")

\* The value of the digits of body, underscores left out.
RECURSIVE DigitsValue(_)
DigitsValue(body) ==
    IF body = <<>> THEN 0
    ELSE IF body[Len(body)] = "_" THEN DigitsValue(SubSeq(body, 1, Len(body) - 1))
    ELSE 10 * DigitsValue(SubSeq(body, 1, Len(body) - 1))
         + (CHOOSE d \in 0..9 : Digits[d + 1] = body[Len(body)])

\* int(piece), for a piece it reads.
IntOf(piece) ==
    IF Head(StripLeft(piece)) = "-" THEN -DigitsValue(Unsigned(piece))
    ELSE DigitsValue(Unsigned(piece))

\* width, height = map(int, resolution.split("x")): ValueError unless there
\* are exactly two pieces and int() reads both.
ParseResolution(s) ==
    LET pieces == SplitX(s, <<>>)
    IN  IF Len(pieces) = 2 /\ IsNumber(pieces[1]) /\ IsNumber(pieces[2])
        THEN [ok |-> TRUE, width |-> IntOf(pieces[1]), height |-> IntOf(pieces[2])]
        ELSE [ok |-> FALSE, width |-> 0, height |-> 0]

(***************************************************************************)
(* wallpaper.py : the ranking functions.                                   *)
(***************************************************************************)
VaryingSize == 4            \* get_varying_colors(wallpaper["colors"], n=4)
BackgroundThreshold == 20   \* is_background_similar's threshold = 20.0
BackgroundWeight == FDec(6, 10) \* background_weight = 0.6

\* color_distance: delta_e_cie2000 of the two colours in Lab.
color_distance(color1, color2) == delta_e_cie2000(color1, color2)

\* A variant of is_background_similar with the comparison turned round.
is_background_dissimilar(bg_color1, bg_color2) ==
    color_distance(bg_color1, bg_color2) >= BackgroundThreshold

\* A variant of is_background_similar that drops a distance equal to the
\* threshold.
is_background_below(bg_color1, bg_color2) ==
    color_distance(bg_color1, bg_color2) < BackgroundThreshold

is_background_similar(bg_color1, bg_color2) ==
    color_distance(bg_color1, bg_color2) <= BackgroundThreshold

\* A variant of filter_wallpapers_by_type that lets every type through.
filter_wallpapers_any_type(ws, target_type) ==
    SelectSeq(ws, LAMBDA w : w.type \in TypeTags)

\* filter_wallpapers_by_type, lines 248-249, for records that have a type
\* (w["type"] is a KeyError on one that has not).
filter_wallpapers_by_type(ws, target_type) ==
    SelectSeq(ws, LAMBDA w : w.type = target_type \/ w.type = "both")

\* 1 / (1 + color_distance(wc, sc))
Similarity(wc, sc) == FDiv(FInt(1), FAdd(FInt(1), FInt(color_distance(wc, sc))))

\* max(1 / (1 + color_distance(wc, sc)) for sc in scheme_colors), from
\* scheme colour i on: best is replaced only by a greater value.
RECURSIVE BestSimilarity(_, _, _, _)
BestSimilarity(wc, scs, i, best) ==
    IF i > Len(scs) THEN best
    ELSE LET Greater(here) == IF FLess(best, here) THEN here ELSE best
         IN  BestSimilarity(wc, scs, i + 1, Greater(Similarity(wc, scs[i])))

\* calculate_color_similarity, lines 462-469, for a non-empty
\* wallpaper_colors and a non-empty scheme_colors, on an interpreter whose
\* sum() is compensated (neumaier) or plain: the sum of the best similarity
\* of every wallpaper colour, divided by their number.
calculate_color_similarity(wcs, scs, neumaier) ==
    LET best == [i \in 1..Len(wcs) |->
                    BestSimilarity(wcs[i], scs, 2, Similarity(wcs[i], scs[1]))]
    IN  FDiv(sum(best, neumaier), FInt(Len(wcs)))

\* calculate_weighted_color_similarity, lines 252-286: [raised, score].
\* wallpaper_colors[0] and scheme_colors[0] are an IndexError on an empty
\* list, the average of the accents divides by their number
\* (ZeroDivisionError on a single wallpaper colour), and max() of no scheme
\* accent is a ValueError.  neumaier tells the sum() of the interpreter.
calculate_weighted_color_similarity(wcs, scs, neumaier) ==
    IF Len(wcs) < 2 \/ Len(scs) < 2 THEN [raised |-> TRUE, score |-> FZero]
    ELSE LET bg_similarity == Similarity(wcs[1], scs[1])
             accent_similarities ==
                 [i \in 1..(Len(wcs) - 1) |->
                     BestSimilarity(wcs[i + 1], Tail(scs), 2,
                                    Similarity(wcs[i + 1], scs[2]))]
             avg_accent_similarity ==
                 FDiv(sum(accent_similarities, neumaier), FInt(Len(wcs) - 1))
         IN  [raised |-> FALSE,
              score |-> FAdd(FMul(BackgroundWeight, bg_similarity),
                             FMul(FSub(FInt(1), BackgroundWeight), avg_accent_similarity))]

\* The scores of the palettes get_varying_colors makes of the palettes of
\* the catalog, and of the scheme colours a call may be given, computed
\* once for either sum(): a set of <<wallpaper_colors, scheme_colors,
\* neumaier, score, weighted score>>.
Similarities ==
    LET palettes == {get_varying_colors(w.colors, VaryingSize).colors :
                        w \in {c \in WallpaperCatalog : "colors" \in DOMAIN c}} \ {<<>>}
        schemes == SchemeLists \cup {[i \in 1..Len(AccentSlots) |->
                                         get_color(v, AccentSlots[i])] : v \in Variants}
    IN  {<<wcs, scs, neumaier, calculate_color_similarity(wcs, scs, neumaier),
           calculate_weighted_color_similarity(wcs, scs, neumaier)>> :
            wcs \in palettes, scs \in schemes, neumaier \in BOOLEAN}

\* The score of a palette and a scheme on the interpreter of the call,
\* looked up where it is tabulated (column 4: the plain score, column 5: the
\* weighted one).
Tabulated(column, wcs, scs, score) ==
    LET Found(rows) ==
            IF rows = {} THEN score ELSE (CHOOSE t \in rows : TRUE)[column]
    IN  Found({t \in Similarities : t[1] = wcs /\ t[2] = scs /\ t[3] = compensated})

\* Lines 198-216 for one wallpaper: whether it reaches the background test,
\* and the record as these lines leave it, with its width and height when
\* its resolution was read.
Measured(w) ==
    IF "colors" \notin DOMAIN w \/ "resolution" \notin DOMAIN w
    THEN [ok |-> FALSE, wallpaper |-> w]
    ELSE IF w.colors = <<>> THEN [ok |-> FALSE, wallpaper |-> w]
    ELSE LET Read(r) ==
                 IF ~r.ok THEN [ok |-> FALSE, wallpaper |-> w]
                 ELSE [ok |-> TRUE,
                       wallpaper |-> WithField(WithField(w, "width", r.width),
                                               "height", r.height)]
         IN  Read(ParseResolution(w.resolution))

\* Lines 198-219: the wallpapers that reach the background test and pass
\* it, each the record that has received its width and height.
RECURSIVE BackgroundStage(_, _)
BackgroundStage(ws, scheme_bg_color) ==
    IF ws = <<>> THEN <<>>
    ELSE LET Kept(m) ==
                 IF m.ok /\ is_background_similar(scheme_bg_color, m.wallpaper.colors[1])
                 THEN <<m.wallpaper>>
                 ELSE <<>>
         IN  Kept(Measured(Head(ws))) \o BackgroundStage(Tail(ws), scheme_bg_color)

\* Lines 227-230: the pair (wallpaper, similarity_score) of every candidate;
\* raised marks a candidate on which get_varying_colors raises, whose pair
\* is not made.
ScoreCompatible(ws, scheme_colors) ==
    [i \in 1..Len(ws) |->
        LET gv == get_varying_colors(ws[i].colors, VaryingSize)
        IN  [wallpaper |-> ws[i],
             raised |-> gv.raised,
             score |-> IF gv.raised THEN FZero
                       ELSE Tabulated(4, gv.colors, scheme_colors,
                                      calculate_color_similarity(gv.colors, scheme_colors,
                                                                 compensated))]]

\* Lines 293-304 for every wallpaper in turn: raised marks a wallpaper on
\* which the pass raises (line 294 on a record without a name, line 298 or
\* 300 on its colours); a wallpaper without a "colors" field is skipped and
\* its entry here is not a pair of the list, the others are the pairs with
\* the weighted score.
ScoreWeighted(ws, scheme_colors) ==
    LET Pair(w, gv, sc) ==
            [wallpaper |-> w,
             raised |-> gv.raised \/ sc.raised,
             score |-> IF gv.raised \/ sc.raised THEN FZero ELSE sc.score]
        Scored(w, gv) ==
            Pair(w, gv, Tabulated(5, gv.colors, scheme_colors,
                                  calculate_weighted_color_similarity(gv.colors,
                                                                      scheme_colors,
                                                                      compensated)))
    IN  [i \in 1..Len(ws) |->
            IF "name" \notin DOMAIN ws[i]
            THEN [wallpaper |-> ws[i], raised |-> TRUE, score |-> FZero]
            ELSE IF "colors" \notin DOMAIN ws[i]
            THEN [wallpaper |-> ws[i], raised |-> FALSE, score |-> FZero]
            ELSE Scored(ws[i], get_varying_colors(ws[i].colors, VaryingSize))]

\* A variant of InsertDesc that orders by increasing score.
RECURSIVE InsertAsc(_, _)
InsertAsc(sorted, x) ==
    IF sorted = <<>> THEN <<x>>
    ELSE IF FLess(x.score, Head(sorted).score) THEN <<x>> \o sorted
    ELSE <<Head(sorted)>> \o InsertAsc(Tail(sorted), x)

\* A variant of InsertDesc that puts a pair in front of the pairs of equal
\* score (an ascending sort turned round).
RECURSIVE InsertDescFront(_, _)
InsertDescFront(sorted, x) ==
    IF sorted = <<>> THEN <<x>>
    ELSE IF ~FLess(x.score, Head(sorted).score) THEN <<x>> \o sorted
    ELSE <<Head(sorted)>> \o InsertDescFront(Tail(sorted), x)

\* list.sort(key=score, reverse=True) is stable: a pair goes before the
\* first pair of a strictly smaller score, behind every pair of equal score.
RECURSIVE InsertDesc(_, _)
InsertDesc(sorted, x) ==
    IF sorted = <<>> THEN <<x>>
    ELSE IF FLess(Head(sorted).score, x.score) THEN <<x>> \o sorted
    ELSE <<Head(sorted)>> \o InsertDesc(Tail(sorted), x)

RECURSIVE SortFrom(_, _)
SortFrom(sorted, rest) ==
    IF rest = <<>> THEN sorted
    ELSE SortFrom(InsertDesc(sorted, Head(rest)), Tail(rest))

\* A variant of top_n that rounds the product up.
top_n_ceil(len, p) == Max2(1, -FFloor(FNeg(FMul(FInt(len), p))))

\* A variant of top_n without the floor of one.
top_n_unfloored(len, p) == FTrunc(FMul(FInt(len), p))

\* top_n = max(1, int(len(ranked_wallpapers) * p)), lines 235 and 309.
top_n(len, p) == Max2(1, FTrunc(FMul(FInt(len), p)))

\* Lines 234-240: [w[0] for w in ranked_wallpapers[:top_n]], or all of them
\* when p is None (<<>> here).
SelectTop(ranked, p) ==
    LET n == IF p = <<>> THEN Len(ranked)
             ELSE Min2(top_n(Len(ranked), p[1]), Len(ranked))
    IN  [i \in 1..n |-> ranked[i].wallpaper]

\* The pairs the loop has appended to ranked_wallpapers when it stops at the
\* first entry that raises, or at its end.
RECURSIVE Appended(_)
Appended(pairs) ==
    IF pairs = <<>> \/ Head(pairs).raised THEN <<>>
    ELSE <<Head(pairs)>> \o Appended(Tail(pairs))

\* get_compatible_wallpapers(scheme, variant, p) over the store ws.  The
\* type filter raises KeyError on a record without a type.  The records of
\* filtered_wallpapers are the dicts the first stage writes to: at the end
\* they have the width and height of every resolution that was read.
get_compatible_wallpapers(ws, variant, p) ==
    IF \E i \in 1..Len(ws) : "type" \notin DOMAIN ws[i]
    THEN [raised |-> TRUE, filtered |-> <<>>, candidates |-> <<>>, ranked |-> <<>>,
          result |-> <<>>]
    ELSE
    LET filtered == filter_wallpapers_by_type(ws, variant.type)
        scheme_bg_color == IF get_color(variant, "background") # None
                           THEN get_color(variant, "background")
                           ELSE get_color(variant, "color0")
        scheme_colors == [i \in 1..Len(AccentSlots) |-> get_color(variant, AccentSlots[i])]
        \* Lines 226-240, from the candidates and their scores on: when a
        \* candidate raises, ranked_wallpapers holds the pairs appended
        \* before it, unsorted.
        Ranked(similar, pairs) ==
            LET raised == \E i \in 1..Len(pairs) : pairs[i].raised
                ranked == IF raised THEN Appended(pairs) ELSE SortFrom(<<>>, pairs)
            IN  [raised |-> raised,
                 filtered |-> [i \in 1..Len(filtered) |-> Measured(filtered[i]).wallpaper],
                 candidates |-> similar,
                 ranked |-> ranked, result |-> SelectTop(ranked, p)]
        Scored(similar) == Ranked(similar, ScoreCompatible(similar, scheme_colors))
    IN  Scored(BackgroundStage(filtered, scheme_bg_color))

\* rank_wallpapers_by_color_similarity(wallpapers, scheme_colors, p).  Line
\* 294 reads wallpaper['name']: KeyError on a record without a name.  When
\* a wallpaper raises, ranked_wallpapers holds the pairs appended before it,
\* unsorted.
rank_wallpapers_by_color_similarity(ws, scheme_colors, p) ==
    LET Ranked(entries) ==
            LET raised == \E i \in 1..Len(entries) : entries[i].raised
                pairs == SelectSeq(Appended(entries),
                                   LAMBDA x : "colors" \in DOMAIN x.wallpaper)
                ranked == IF raised THEN pairs ELSE SortFrom(<<>>, pairs)
            IN  [raised |-> raised, filtered |-> ws, candidates |-> ws,
                 ranked |-> ranked, result |-> SelectTop(ranked, p)]
    IN  Ranked(ScoreWeighted(ws, scheme_colors))

InitRanking ==
    /\ Others("ranking")
    /\ \E n \in 0..MaxWallpapers : \E f \in [1..n -> WallpaperCatalog] :
          rkStore = [i \in 1..n |-> WithField(f[i], "id", i)]
    /\ rkCall = <<>>
    /\ rkpc = "call"
    /\ rkFiltered = <<>>
    /\ rkCandidates = <<>>
    /\ rkRanked = <<>>
    /\ rkResult = <<>>
    /\ compensated \in BOOLEAN

\* The state a ranking call leaves: its locals and its result, or the
\* exception that escaped it.
RankingDone(r) ==
    /\ rkpc' = IF r.raised THEN "raised" ELSE "returned"
    /\ rkFiltered' = r.filtered
    /\ rkCandidates' = r.candidates
    /\ rkRanked' = r.ranked
    /\ rkResult' = IF r.raised THEN <<>> ELSE r.result
    /\ UNCHANGED <<rkStore, compensated>>
    /\ UNCHANGED <<kmVars, gvVars, ecVars, wsVars, dwVars>>

GetCompatible ==
    /\ rkpc = "call"
    /\ \E variant \in Variants : \E p \in KeepArguments :
          /\ rkCall' = [fn |-> "get_compatible_wallpapers", variant |-> variant,
                        scheme_colors |-> <<>>, p |-> p]
          /\ \E r \in {get_compatible_wallpapers(rkStore, variant, p)} : RankingDone(r)

RankBySimilarity ==
    /\ rkpc = "call"
    /\ \E scheme_colors \in SchemeLists : \E p \in KeepArguments :
          /\ rkCall' = [fn |-> "rank_wallpapers_by_color_similarity", variant |-> <<>>,
                        scheme_colors |-> scheme_colors, p |-> p]
          /\ \E r \in {rank_wallpapers_by_color_similarity(rkStore, scheme_colors, p)} :
                RankingDone(r)

NextRanking == GetCompatible \/ RankBySimilarity

SpecRanking == InitRanking /\ [][NextRanking]_vars

(***************************************************************************)
(* utils/color.py : estimate_colors                                        *)
(*                                                                         *)
(* webcolors.CSS3_HEX_TO_NAMES is a dict from hex code to name; the model  *)
(* has two of its entries, in the dict's iteration order, each a pair of   *)
(* a colour of the sample and its name.  The other colours of the sample   *)
(* have no name: one of them is equally far from both entries, the others  *)
(* are nearer to the second.                                               *)
(***************************************************************************)
CSS3_HEX_TO_NAMES == << <<1, "aliceblue">>, <<2, "antiquewhite">> >>

\* webcolors.hex_to_name(hex_color), line 48: the name of the entry whose
\* key is hex_color; ValueError (raised) when no entry has that key.
hex_to_name(hex_color) ==
    LET hits == {i \in 1..Len(CSS3_HEX_TO_NAMES) : CSS3_HEX_TO_NAMES[i][1] = hex_color}
    IN  IF hits = {} THEN [raised |-> TRUE, name |-> None]
        ELSE [raised |-> FALSE,
              name |-> CSS3_HEX_TO_NAMES[CHOOSE i \in hits : TRUE][2]]

\* The loop of closest_color, lines 33-41, from entry i on, min_distance
\* being None (-1 here) before the first entry.
RECURSIVE ClosestLast(_, _, _, _)
ClosestLast(requested_color, i, min_distance, closest_color_name) ==
    IF i > Len(CSS3_HEX_TO_NAMES) THEN closest_color_name
    ELSE LET distance == delta_e_cie2000(requested_color, CSS3_HEX_TO_NAMES[i][1])
         IN  IF min_distance = -1 \/ distance <= min_distance
             THEN ClosestLast(requested_color, i + 1, distance, CSS3_HEX_TO_NAMES[i][2])
             ELSE ClosestLast(requested_color, i + 1, min_distance, closest_color_name)

RECURSIVE ClosestFrom(_, _, _, _)
ClosestFrom(requested_color, i, min_distance, closest_color_name) ==
    IF i > Len(CSS3_HEX_TO_NAMES) THEN closest_color_name
    ELSE LET distance == delta_e_cie2000(requested_color, CSS3_HEX_TO_NAMES[i][1])
         IN  IF min_distance = -1 \/ distance < min_distance
             THEN ClosestFrom(requested_color, i + 1, distance, CSS3_HEX_TO_NAMES[i][2])
             ELSE ClosestFrom(requested_color, i + 1, min_distance, closest_color_name)

\* closest_color(requested_color), lines 27-43.
closest_color(requested_color) == ClosestFrom(requested_color, 1, -1, None)

\* get_name(hex_color), lines 45-51.
get_name(hex_color) ==
    LET direct == hex_to_name(hex_color)
    IN  IF direct.raised THEN closest_color(hex_color) ELSE direct.name

\* estimate_colors(hex_colors), line 53.
estimate_colors(hex_colors) ==
    [i \in 1..Len(hex_colors) |-> get_name(hex_colors[i])]

InitNames ==
    /\ Others("estimate_colors")
    /\ ecColors \in SeqsUpTo(Colors, MaxNames)
    /\ ecpc = "call"
    /\ ecResult = <<>>

EstimateCall ==
    /\ ecpc = "call"
    /\ ecpc' = "returned"
    /\ ecResult' = estimate_colors(ecColors)
    /\ UNCHANGED ecColors
    /\ UNCHANGED <<kmVars, gvVars, rkVars, wsVars, dwVars>>

SpecNames == InitNames /\ [][EstimateCall]_vars

(***************************************************************************)
(* wallpaper.py : the wallpaper store.                                     *)
(*                                                                         *)
(* WALLPAPER_DIR holds, for each imported wallpaper, the image <id><ext>   *)
(* and the metadata <id>.json.  os.listdir gives the files in no fixed     *)
(* order, so the metadata files are a set of records and the images a set  *)
(* of [id, extension, content].  An id is a uuid4 string, here two         *)
(* characters; names are strings too, one of them spelled like the start   *)
(* of an id.                                                               *)
(*                                                                         *)
(* The files offered for import differ in their content: a landscape image *)
(* with enough colours for a palette of six, a square image of four        *)
(* pixels, and a file that is not an image.                                *)
(***************************************************************************)
Uuids == [1..2 -> {"a", "b"}]

\* img.size of the image: content 1 is the landscape image, 2 the square
\* one, 3 the file that is not an image.
ImageSize(content) == IF content = 1 THEN <<4, 2>> ELSE <<2, 2>>

\* The stem of the imported path, and the name given by hand.
Stem == <<"w">>

ManualName == <<"a">>

Extension == <<".", "p", "n", "g">>

\* calculate_file_hash: the SHA256 digest of the content; different
\* contents have different digests.
calculate_file_hash(content) == <<"sha256", content>>

\* str(n) for a natural number.
RECURSIVE StrOfNat(_)
StrOfNat(n) ==
    IF n < 10 THEN <<Digits[n + 1]>>
    ELSE StrOfNat(n \div 10) \o <<Digits[(n % 10) + 1]>>

\* The orientation analyze_wallpaper gives, lines 125-130:
\* abs(width - height) <= min(width, height) * 0.05.
AnalyzeOrientation(width, height) ==
    IF ~FLess(FMul(FInt(Min2(width, height)), FDec(5, 100)),
              FInt(IF width > height THEN width - height ELSE height - width))
    THEN "both"
    ELSE IF width > height THEN "landscape"
    ELSE "portrait"

\* list_wallpapers(): the records of all metadata files.
list_wallpapers == wsRecords

\* The ids uuid4 may give: those no file of the directory is named by.
FreshIds == Uuids \ ({w.id : w \in wsRecords} \cup {f.id : f \in wsImages})

\* get_wallpaper(identifier), lines 161-166: the records one of which is
\* returned (the first in listing order); None when the set is empty.
get_wallpaper(identifier) ==
    {w \in list_wallpapers :
        \/ /\ Len(identifier) <= Len(w.id)
           /\ SubSeq(w.id, 1, Len(identifier)) = identifier  \* str.startswith
        \/ w.name = identifier}

\* A variant of get_wallpapers_missing_metadata whose last test is turned
\* round.
get_wallpapers_with_orientation ==
    {w \in list_wallpapers :
        \/ "colors" \notin DOMAIN w
        \/ "orientation" \notin DOMAIN w
        \/ w.orientation # "N/A"}

\* get_wallpapers_missing_metadata(), lines 141-148.
get_wallpapers_missing_metadata ==
    {w \in list_wallpapers :
        \/ "colors" \notin DOMAIN w
        \/ "orientation" \notin DOMAIN w
        \/ w.orientation = "N/A"}

\* The palettes infer_palette(path, n=6) may return for an image: the seeds
\* are random, so one image has several; an image of fewer than six colours
\* has none (ValueError, line 101 of color.py).
InferredPalettes(content) ==
    IF content = 1 THEN {<<1, 2, 3, 4, 5, 1>>, <<2, 1, 3, 4, 5, 1>>} ELSE {}

InitStore ==
    /\ Others("store")
    /\ wsRecords = {}
    /\ wsImages = {}
    /\ wsCall = NoCall

\* A variant of the duplicate check that compares names, not hashes.
IsDuplicateName(content, name) == \E w \in list_wallpapers : w.name = name

\* A variant of the duplicate check that digests the file with another
\* algorithm than the one of the stored hashes.
IsDuplicateMd5(content, name) ==
    \E w \in list_wallpapers : w.hash = <<"md5", content>>

\* The duplicate check of import_wallpaper, lines 47-53.
IsDuplicate(content, name) ==
    \E w \in list_wallpapers : w.hash = calculate_file_hash(content)

\* import_wallpaper(path, name, type) for a path with this content; name is
\* None (<<>>) or a string.  The check for duplicates comes first; then the
\* file is copied, and only then opened as an image: Image.open raises on a
\* file that is not one, after the copy and before any metadata is written.
ImportWallpaper ==
    /\ wsCall.fn # "idle"
    /\ FreshIds # {}
    /\ UNCHANGED <<kmVars, gvVars, rkVars, ecVars, dwVars>>
    /\ \E content \in 1..3 : \E given \in {<<>>, ManualName} :
       \E type \in {"dark", "light"} : \E wallpaper_id \in FreshIds :
          LET hash == calculate_file_hash(content)
              name == IF given = <<>> THEN Stem ELSE given
              size == ImageSize(content)
              metadata ==
                  [id |-> wallpaper_id,
                   name |-> name,
                   type |-> type,
                   name_source |-> IF given = <<>> THEN "filename" ELSE "manual",
                   resolution |-> StrOfNat(size[1]) \o <<"x">> \o StrOfNat(size[2]),
                   orientation |-> IF size[1] = size[2] THEN "both"
                                   ELSE IF size[1] > size[2] THEN "landscape"
                                   ELSE "portrait",
                   filesize |-> 100 * content,
                   extension |-> Extension,
                   hash |-> hash]
              copied == [id |-> wallpaper_id, extension |-> Extension,
                         content |-> content]
          IN  IF IsDuplicate(content, name)
              THEN /\ wsCall' = [fn |-> "import_wallpaper", outcome |-> "ValueError",
                                 id |-> <<>>, result |-> hash,
                                 extracted |-> FALSE]
                   /\ UNCHANGED <<wsRecords, wsImages>>
              ELSE IF content = 3
              THEN /\ wsCall' = [fn |-> "import_wallpaper", outcome |-> "raised",
                                 id |-> <<>>, result |-> hash,
                                 extracted |-> FALSE]
                   /\ wsImages' = wsImages \cup {copied}
                   /\ UNCHANGED wsRecords
              ELSE /\ wsCall' = [fn |-> "import_wallpaper", outcome |-> "returned",
                                 id |-> wallpaper_id, result |-> hash,
                                 extracted |-> FALSE]
                   /\ wsImages' = wsImages \cup {copied}
                   /\ wsRecords' = wsRecords \cup {metadata}

\* A variant of the colour step that runs the extraction on every call.
ExtractAlways(wallpaper, content) ==
    {WithField(wallpaper, "colors", p) : p \in InferredPalettes(content)}

\* Lines 116-120: the record with its colours, for each way the step can
\* end; the empty set when infer_palette can only raise.
ExtractIfAbsent(wallpaper, content) ==
    IF "colors" \notin DOMAIN wallpaper
    THEN {WithField(wallpaper, "colors", p) : p \in InferredPalettes(content)}
    ELSE {wallpaper}

\* Lines 123-131: [raised, wallpaper].  A record without an orientation is
\* given one from its resolution: wallpaper["resolution"] is a KeyError on a
\* record without one, and the unpacking of map(int, ...) a ValueError on a
\* resolution that does not read as two numbers.
WithOrientation(wallpaper) ==
    IF "orientation" \notin DOMAIN wallpaper \/ wallpaper["orientation"] = "N/A"
    THEN IF "resolution" \notin DOMAIN wallpaper
         THEN [raised |-> TRUE, wallpaper |-> wallpaper]
         ELSE LET r == ParseResolution(wallpaper.resolution)
              IN  IF ~r.ok THEN [raised |-> TRUE, wallpaper |-> wallpaper]
                  ELSE [raised |-> FALSE,
                        wallpaper |-> WithField(wallpaper, "orientation",
                                                AnalyzeOrientation(r.width, r.height))]
    ELSE [raised |-> FALSE, wallpaper |-> wallpaper]

\* analyze_wallpaper(wallpaper_id), given an id, the start of an id or a
\* name.  The record found is rewritten with its
\* colours and orientation; an exception of infer_palette (too few colours,
\* an empty cluster) or of the orientation step leaves the call before
\* anything is written.
AnalyzeWallpaper ==
    /\ wsCall.fn # "idle"
    /\ UNCHANGED <<kmVars, gvVars, rkVars, ecVars, dwVars>>
    /\ UNCHANGED wsImages
    /\ \E identifier \in {SubSeq(id, 1, n) : id \in Uuids, n \in 1..2}
                             \cup {Stem, ManualName, <<"z">>} :
          IF get_wallpaper(identifier) = {}
          THEN /\ wsCall' = [fn |-> "analyze_wallpaper", outcome |-> "ValueError",
                             id |-> identifier, result |-> <<>>,
                             extracted |-> FALSE]
               /\ UNCHANGED wsRecords
          ELSE \E wallpaper \in get_wallpaper(identifier) :
               \E image \in {f \in wsImages : f.id = wallpaper.id} :
                  \/ /\ "colors" \notin DOMAIN wallpaper
                     /\ wsCall' = [fn |-> "analyze_wallpaper", outcome |-> "raised",
                                   id |-> wallpaper.id, result |-> <<>>,
                                   extracted |-> TRUE]
                     /\ UNCHANGED wsRecords
                  \/ \E analysed \in ExtractIfAbsent(wallpaper, image.content) :
                     \E oriented \in {WithOrientation(analysed)} :
                        IF oriented.raised
                        THEN /\ wsCall' = [fn |-> "analyze_wallpaper",
                                           outcome |-> "raised",
                                           id |-> wallpaper.id, result |-> <<>>,
                                           extracted |-> "colors" \notin DOMAIN wallpaper]
                             /\ UNCHANGED wsRecords
                        ELSE /\ wsRecords' = (wsRecords \ {wallpaper})
                                                \cup {oriented.wallpaper}
                             /\ wsCall' = [fn |-> "analyze_wallpaper",
                                           outcome |-> "returned",
                                           id |-> wallpaper.id, result |-> analysed.colors,
                                           extracted |-> "colors" \notin DOMAIN wallpaper]

NextStore == ImportWallpaper \/ AnalyzeWallpaper

SpecStore == InitStore /\ [][NextStore]_vars

(***************************************************************************)
(* determine_wallpapers_to_set (wallpaper.py, lines 376-438).              *)
(***************************************************************************)
\* The wallpaper records a call is given.  The callers hand over the result
\* of get_compatible_wallpapers, whose records carry a width and a height.
\* The field file is not part of a record: it is what imghdr.what finds at
\* the record's path ("image", "other" for a file of no known image type,
\* "missing" for no file).
DisplayWallpapers ==
    { [id |-> <<"a">>, extension |-> Extension, width |-> 4, height |-> 1,
       file |-> "image"],
      [id |-> <<"b">>, extension |-> Extension, width |-> 4, height |-> 2,
       file |-> "image", similarity_score |-> 1],
      [id |-> <<"c">>, extension |-> Extension, width |-> 4, height |-> 4,
       file |-> "other"],
      [id |-> <<"d">>, extension |-> Extension, width |-> 4, height |-> 2,
       file |-> "missing"] }

\* The displays get_displays may report: one resolution does not parse, one
\* is written with spaces around the x.
DisplayCatalog ==
    { [identifier |-> <<"A">>, resolution |-> <<"2", "x", "1">>],
      [identifier |-> <<"B">>, resolution |-> <<"4", "x", "2">>],
      [identifier |-> <<"C">>, resolution |-> <<"8", "x", "8">>],
      [identifier |-> <<"D">>, resolution |-> <<"2", "x">>],
      [identifier |-> <<"E">>, resolution |-> <<"4", " ", "x", " ", "4">>] }

\* extension.lstrip('.')
RECURSIVE LStripDot(_)
LStripDot(ext) ==
    IF ext # <<>> /\ Head(ext) = "." THEN LStripDot(Tail(ext)) ELSE ext

\* Lines 100-103: WALLPAPER_DIR / f"{id}.{extension.lstrip('.')}"
get_wallpaper_path(wallpaper) ==
    wallpaper.id \o <<".">> \o LStripDot(wallpaper.extension)

\* Line 442: imghdr.what(file_path) is not None, for a file that exists.
is_image_file(wallpaper) == wallpaper.file = "image"

\* A variant of the candidate test that compares the widths only.
CandidatesByWidth(wallpapers, display_width, display_height) ==
    SelectSeq(wallpapers, LAMBDA w : /\ is_image_file(w)
                                     /\ w.width >= display_width)

\* Lines 389-400: the wallpapers that are image files and at least as wide
\* and as high as the display, in the order of the list.
Candidates(wallpapers, display_width, display_height) ==
    SelectSeq(wallpapers, LAMBDA w : /\ is_image_file(w)
                                     /\ w.width >= display_width
                                     /\ w.height >= display_height)

\* w.get("similarity_score", 0)
SimilarityOf(w) ==
    IF "similarity_score" \in DOMAIN w THEN w.similarity_score ELSE 0

\* Lines 409-411: sorted(candidates, key=similarity_score, reverse=True) is
\* stable: equal scores keep the order of the list.
RECURSIVE InsertBySimilarity(_, _)
InsertBySimilarity(sorted, x) ==
    IF sorted = <<>> THEN <<x>>
    ELSE IF SimilarityOf(Head(sorted)) < SimilarityOf(x) THEN <<x>> \o sorted
    ELSE <<Head(sorted)>> \o InsertBySimilarity(Tail(sorted), x)

RECURSIVE SortBySimilarity(_, _)
SortBySimilarity(sorted, rest) ==
    IF rest = <<>> THEN sorted
    ELSE SortBySimilarity(InsertBySimilarity(sorted, Head(rest)), Tail(rest))

\* Lines 408-417: the wallpapers one pass may select; random.choice takes
\* any of the first max(1, int(len(candidates) * filter_threshold)).
Selectable(candidates, use_random, filter_threshold) ==
    IF candidates = <<>> THEN {}
    ELSE IF use_random
    THEN LET sorted == SortBySimilarity(<<>>, candidates)
             num_candidates == top_n(Len(candidates), filter_threshold)
         IN  {sorted[i] : i \in 1..Min2(num_candidates, Len(sorted))}
    ELSE {candidates[1]}

\* Lines 385-436: one pass of the loop over the displays, as the entries it
\* may append.  A resolution that does not parse and a missing file raise
\* inside the try block: the error is logged and nothing is appended.
EntriesFor(display, wallpapers, use_random, filter_threshold) ==
    LET r == ParseResolution(display.resolution)
    IN  IF ~r.ok THEN {<<>>}
        ELSE IF \E i \in 1..Len(wallpapers) : wallpapers[i].file = "missing"
        THEN {<<>>}
        ELSE LET candidates == Candidates(wallpapers, r.width, r.height)
             IN  IF candidates = <<>> THEN {<<>>}
                 ELSE { << [display |-> display.identifier,
                            wallpaper |-> get_wallpaper_path(selected)] >> :
                        selected \in Selectable(candidates, use_random,
                                                filter_threshold) }

\* The lists determine_wallpapers_to_set may return.  (InitDisplays calls
\* it with distinct displays and with filter_threshold 0.2, the default,
\* or 1.0.)
RECURSIVE determine_wallpapers_to_set(_, _, _, _)
determine_wallpapers_to_set(wallpapers, displays, use_random, filter_threshold) ==
    IF displays = <<>> THEN {<<>>}
    ELSE { first \o rest :
             first \in EntriesFor(Head(displays), wallpapers, use_random,
                                  filter_threshold),
             rest \in determine_wallpapers_to_set(wallpapers, Tail(displays),
                                                  use_random, filter_threshold) }

InitDisplays ==
    /\ Others("determine_wallpapers_to_set")
    /\ \E ws \in SeqsUpTo(DisplayWallpapers, MaxListed),
          ds \in SeqsUpTo(DisplayCatalog, MaxDisplays),
          use_random \in BOOLEAN, filter_threshold \in {FDec(2, 10), FDec(1, 1)} :
            /\ \A i, j \in 1..Len(ds) :
                  (ds[i].identifier = ds[j].identifier) => (i = j)
            /\ dwArgs = [wallpapers |-> ws, displays |-> ds,
                         use_random |-> use_random,
                         filter_threshold |-> filter_threshold]
    /\ dwpc = "call"
    /\ dwResult = <<>>

DetermineCall ==
    /\ dwpc = "call"
    /\ dwResult' \in determine_wallpapers_to_set(dwArgs.wallpapers, dwArgs.displays,
                                                 dwArgs.use_random,
                                                 dwArgs.filter_threshold)
    /\ dwpc' = "returned"
    /\ UNCHANGED <<dwArgs, kmVars, gvVars, rkVars, ecVars, wsVars>>

SpecDisplays == InitDisplays /\ [][DetermineCall]_vars

(***************************************************************************)
(* The components together.  A behaviour studies one function: it starts   *)
(* in the initial state of one component, the others idle, and takes the   *)
(* steps of that component only.                                           *)
(***************************************************************************)
Init ==
    InitKMeans \/ InitVarying \/ InitRanking \/ InitNames \/ InitStore
        \/ InitDisplays

Next ==
    NextKMeans \/ VaryingCall \/ NextRanking \/ EstimateCall \/ NextStore
        \/ DetermineCall

Spec == Init /\ [][Next]_vars

(***************************************************************************)
(* Properties of the ranking functions.                                    *)
(***************************************************************************)
RankingEnded == rkpc \in {"returned", "raised"}

CompatibleCall == RankingEnded /\ rkCall.fn = "get_compatible_wallpapers"

\* The records of a list, without the width and height a pass may add.
Ids(ws) == [i \in 1..Len(ws) |-> ws[i].id]

\* C5: the result of get_compatible_wallpapers never contains a candidate
\* whose type tag is neither the requested type nor "both" (a "light"
\* candidate is excluded for "dark"), and every candidate tagged with the
\* requested type or "both" passes the type filter.
C5_TypeFilter ==
    CompatibleCall =>
        /\ \A i \in 1..Len(rkResult) :
              rkResult[i].type \in {rkCall.variant.type, "both"}
        /\ \A i \in 1..Len(rkFiltered) :
              rkFiltered[i].type \in {rkCall.variant.type, "both"}
        /\ \A i \in 1..Len(rkStore) :
              rkStore[i].type \in {rkCall.variant.type, "both"}
                  => \E j \in 1..Len(rkFiltered) :
                        /\ rkFiltered[j].id = rkStore[i].id
                        /\ rkFiltered[j].type = rkStore[i].type

\* A pass for "dark" over a store with a light, a dark and a "both" record
\* that returned some of them.
C5_Witness ==
    /\ CompatibleCall
    /\ rkpc = "returned"
    /\ rkCall.variant.type = "dark"
    /\ \E i, j, l \in 1..Len(rkStore) :
          /\ rkStore[i].type = "light"
          /\ rkStore[j].type = "dark"
          /\ rkStore[l].type = "both"
    /\ Len(rkResult) >= 2

\* The least integer not below the floating-point product len * p, and the
\* greatest not above it (p in (0, 1]).
CeilOfProduct(len, p) ==
    CHOOSE t \in 0..len :
        /\ ~FLess(FInt(t), FMul(FInt(len), p))
        /\ t > 0 => FLess(FInt(t - 1), FMul(FInt(len), p))

IntegerPart(len, p) ==
    CHOOSE t \in 0..len :
        /\ ~FLess(FMul(FInt(len), p), FInt(t))
        /\ FLess(FMul(FInt(len), p), FInt(t + 1))

\* C6 as stated: with keepFraction p the number of candidates returned is
\* max(1, ceil(len(ranked) * p)), capped at len(ranked).
C6_CeilCount ==
    (rkpc = "returned" /\ rkCall.p # <<>>) =>
        Len(rkResult) =
            Min2(Len(rkRanked), Max2(1, CeilOfProduct(Len(rkRanked), rkCall.p[1])))

\* C6 as amended: with keepFraction p the number of candidates returned is
\* max(1, int(len(ranked) * p)), capped at len(ranked): the floating-point
\* product is cut to its integer part, not rounded up.
C6_FloorCount ==
    (rkpc = "returned" /\ rkCall.p # <<>>) =>
        Len(rkResult) =
            Min2(Len(rkRanked), Max2(1, IntegerPart(Len(rkRanked), rkCall.p[1])))

\* Three ranked candidates and p = 0.5: one candidate is returned, where
\* rounding up would give two.
C6_Witness ==
    /\ rkpc = "returned"
    /\ rkCall.p = <<FDec(1, 2)>>
    /\ Len(rkRanked) = 3
    /\ Len(rkResult) = 1

\* C7: with keepFraction supplied and at least one candidate ranked, the
\* result holds at least one candidate, however small the fraction, and the
\* kept candidates are the first entries of the full ranked order.
C7_FloorOfOneAndPrefix ==
    (rkpc = "returned" /\ rkCall.p # <<>> /\ Len(rkRanked) >= 1) =>
        /\ Len(rkResult) >= 1
        /\ Len(rkResult) <= Len(rkRanked)
        /\ \A i \in 1..Len(rkResult) : rkResult[i] = rkRanked[i].wallpaper

\* Three ranked candidates and p = 0.01: the product truncates to zero and
\* one candidate is kept.
C7_Witness ==
    /\ rkpc = "returned"
    /\ rkCall.p = <<FDec(1, 100)>>
    /\ Len(rkRanked) = 3
    /\ Len(rkResult) = 1
    /\ rkResult[1] = rkRanked[1].wallpaper

\* A candidate that lacks colour data: no colors field, an empty list, or
\* (for the weighted score) a single colour.
LacksColorData(w) ==
    \/ "colors" \notin DOMAIN w
    \/ w.colors = <<>>
    \/ (rkCall.fn = "rank_wallpapers_by_color_similarity" /\ Len(w.colors) < 2)

\* Every record of the store has a name, and every palette of the store is
\* one get_varying_colors can reduce to VaryingSize colours: it is short
\* enough, or has that many different ones.
PalettesReducible ==
    \A i \in 1..Len(rkStore) :
        /\ "name" \in DOMAIN rkStore[i]
        /\ "colors" \in DOMAIN rkStore[i] =>
              \/ Len(rkStore[i].colors) <= VaryingSize
              \/ Cardinality(Range(rkStore[i].colors)) >= VaryingSize

\* C8: in a ranking pass a candidate that lacks colour data is excluded from
\* the result and the pass continues: no exception escapes, and every other
\* candidate that reaches the scoring loop is ranked.
C8_SkipAndContinue ==
    (RankingEnded /\ PalettesReducible) =>
        /\ rkpc = "returned"
        /\ \A i \in 1..Len(rkResult) : ~LacksColorData(rkResult[i])
        /\ \A i \in 1..Len(rkCandidates) :
              ~LacksColorData(rkCandidates[i])
                  => \E j \in 1..Len(rkRanked) : rkRanked[j].wallpaper = rkCandidates[i]

\* The candidates of a get_compatible_wallpapers call that survive the type
\* and background filters, read off the store and the colour table.
Survives(w) ==
    /\ w.type \in {rkCall.variant.type, "both"}
    /\ "colors" \in DOMAIN w
    /\ "resolution" \in DOMAIN w
    /\ w.colors # <<>>
    /\ w.resolution \in {GoodResolution, SpacedResolution, SignedResolution}
    /\ DeltaTable[IF "background" \in DOMAIN rkCall.variant.colors
                  THEN rkCall.variant.colors["background"]
                  ELSE rkCall.variant.colors["color0"]][w.colors[1]] <= 20

NothingToRank ==
    IF rkCall.fn = "get_compatible_wallpapers"
    THEN \A i \in 1..Len(rkStore) : ~Survives(rkStore[i])
    ELSE rkStore = <<>>

\* C9: ranking an empty candidate list, or one that is empty after the type
\* and background filters, returns an empty list without raising, with or
\* without keepFraction.
C9_EmptyIsEmpty ==
    (RankingEnded /\ NothingToRank) => (rkpc = "returned" /\ rkResult = <<>>)

\* A pass with a keep fraction over a non-empty store of which no record
\* survives the filters, and a pass over the empty list.
C9_Witness ==
    /\ rkpc = "returned"
    /\ NothingToRank
    /\ rkCall.p # <<>>
    /\ rkCall.fn = "get_compatible_wallpapers"
    /\ Len(rkStore) >= 2
    /\ Len(rkFiltered) >= 1
    /\ rkResult = <<>>

\* C10: the result is ordered best match first: of two adjacent candidates
\* the earlier has a score greater than or equal to the later's.
C10_BestFirst ==
    (rkpc = "returned") =>
        \A i \in 1..(Len(rkResult) - 1) :
            /\ rkResult[i] = rkRanked[i].wallpaper
            /\ rkResult[i + 1] = rkRanked[i + 1].wallpaper
            /\ ~FLess(rkRanked[i].score, rkRanked[i + 1].score)

\* Three candidates of three different scores, returned in an order that is
\* not their input order.
C10_Witness ==
    /\ rkpc = "returned"
    /\ Len(rkResult) = 3
    /\ FLess(rkRanked[2].score, rkRanked[1].score)
    /\ FLess(rkRanked[3].score, rkRanked[2].score)
    /\ rkResult[1].id > rkResult[2].id

\* C11: ranking is stable: two candidates of equal score appear in the
\* result in the order they have in the input list (the order of their ids),
\* the result being the head of the sorted list.
C11_StableTies ==
    (rkpc = "returned") =>
        /\ \A i \in 1..Len(rkResult) : rkResult[i] = rkRanked[i].wallpaper
        /\ \A i, j \in 1..Len(rkRanked) :
              (/\ i < j
               /\ ~FLess(rkRanked[i].score, rkRanked[j].score)
               /\ ~FLess(rkRanked[j].score, rkRanked[i].score))
                  => rkRanked[i].wallpaper.id < rkRanked[j].wallpaper.id

\* Two candidates of equal score are returned in their input order, behind a
\* better candidate that came after them in the input.
C11_Witness ==
    /\ rkpc = "returned"
    /\ Len(rkResult) = 3
    /\ rkResult[1].id = 3
    /\ rkResult[2].id = 1
    /\ rkResult[3].id = 2
    /\ FLess(rkRanked[2].score, rkRanked[1].score)
    /\ ~FLess(rkRanked[3].score, rkRanked[2].score)

\* The scheme's background colour: the background slot, else color0.
SchemeBackground ==
    IF "background" \in DOMAIN rkCall.variant.colors
    THEN rkCall.variant.colors["background"]
    ELSE rkCall.variant.colors["color0"]

\* A record with a palette of at least one colour and a resolution of two
\* numbers.
ValidMetadata(w) ==
    /\ "colors" \in DOMAIN w
    /\ "resolution" \in DOMAIN w
    /\ w.colors # <<>>
    /\ \E i \in 2..(Len(w.resolution) - 1) :
          /\ w.resolution[i] = "x"
          /\ \A j \in 1..Len(w.resolution) :
                j # i => w.resolution[j] \in Range(Digits)

\* C12: in get_compatible_wallpapers a type-matching candidate with valid
\* metadata is dropped by the background pre-filter exactly when the distance
\* between the first colour of its palette and the scheme's background colour
\* exceeds 20; at a distance of exactly 20 it is kept.
C12_BackgroundThreshold ==
    CompatibleCall =>
        \A i \in 1..Len(rkFiltered) :
            ValidMetadata(rkFiltered[i]) =>
                ((\E j \in 1..Len(rkCandidates) : rkCandidates[j].id = rkFiltered[i].id)
                    <=> delta_e_cie2000(rkFiltered[i].colors[1], SchemeBackground) <= 20)

\* A candidate at a distance of exactly 20 from the scheme's background is
\* kept and returned.
C12_Witness ==
    /\ CompatibleCall
    /\ rkpc = "returned"
    /\ \E i \in 1..Len(rkResult) :
          delta_e_cie2000(rkResult[i].colors[1], SchemeBackground) = 20

(***************************************************************************)
(* Properties of the colour conversions of infer_palette.                  *)
(***************************************************************************)

\* "#" followed by exactly six hex digits.
ValidHex(h) ==
    /\ Len(h) = 7
    /\ h[1] = "#"
    /\ \A i \in 2..7 : h[i] \in Range(HexDigit)

\* C13: every colour yuv_to_hex produces is "#" followed by exactly six hex
\* digits: a channel computed below 0 or above 255 yields neither a sign
\* character nor a third digit.
C13_ValidHex ==
    (kpc = "returned") => \A i \in 1..Len(palette) : ValidHex(palette[i])

\* The palette of a pure green image: the red channel is computed below 0
\* (it rounds down to -1) and comes out as "00".
C13_Witness ==
    /\ kpc = "returned"
    /\ points = get_points(<< <<1, <<0, 255, 0>> >> >>)
    /\ LET c == clusters[1].center.coords
       IN  FFloor(FAdd(c[1], FMul(FDec(113983, 100000), c[3]))) = -1
    /\ palette = << <<"#", "0", "0", "f", "f", "0", "0">> >>

\* The hex string of an 8-bit colour.
rgb_hex(rgb) ==
    <<"#">> \o Format02x(rgb[1]) \o Format02x(rgb[2]) \o Format02x(rgb[3])

\* h is the hex string of a colour at most one unit from rgb in each channel.
WithinOne(h, rgb) ==
    \E d \in [1..3 -> {-1, 0, 1}] :
        /\ \A i \in 1..3 : rgb[i] + d[i] \in 0..255
        /\ h = rgb_hex([i \in 1..3 |-> rgb[i] + d[i]])

\* infer_palette returned for the image t[1], of points t[2], with as many
\* clusters as the image has colours.
OneClusterPerColor(t) ==
    /\ kpc = "returned"
    /\ k = Len(t[1])
    /\ points = t[2]

\* C14 as stated: an image of the two colours #000000 and #ffffff with k = 2
\* gives a palette of two entries that holds both #000000 and #ffffff; in
\* general, when k equals the number of distinct colours, each cluster keeps
\* exactly one colour and the palette lists those colours.
C14_ExactColors ==
    \A t \in ImagePoints :
        OneClusterPerColor(t) =>
            /\ Len(palette) = k
            /\ \A j \in 1..k : \E i \in 1..k :
                  /\ clusters[i].points = <<points[j]>>
                  /\ palette[i] = rgb_hex(t[1][j][2])

\* C14 amended: the palette lists each colour to within one unit per channel
\* (white comes back as #fffeff).
C14_ColorsWithinOne ==
    \A t \in ImagePoints :
        OneClusterPerColor(t) =>
            /\ Len(palette) = k
            /\ \A j \in 1..k : \E i \in 1..k :
                  /\ clusters[i].points = <<points[j]>>
                  /\ WithinOne(palette[i], t[1][j][2])
            /\ ({t[1][j][2] : j \in 1..k} = {Black, White})
                  => Range(palette) = {rgb_hex(Black), rgb_hex(<<255, 254, 255>>)}

\* The image of one black and one white pixel, clustered with k = 2.
C14_Witness ==
    /\ \E t \in ImagePoints :
          t[1] = << <<1, Black>>, <<1, White>> >> /\ OneClusterPerColor(t)
    /\ palette = <<rgb_hex(Black), rgb_hex(<<255, 254, 255>>)>>
    /\ rgb_hex(White) \notin Range(palette)

\* C15: an image whose pixels all have one colour c, clustered with k = 3,
\* gives a palette of exactly 3 entries, each within one unit per channel
\* of c.
C15_SolidImage ==
    \A t \in ImagePoints :
        (/\ Len(t[1]) = 1
         /\ k = 3
         /\ kpc \in {"returned", "raised"}
         /\ points = t[2])
            => /\ kpc = "returned"
               /\ Len(palette) = 3
               /\ \A i \in 1..3 : WithinOne(palette[i], t[1][1][2])

\* C16: for every 8-bit colour c, yuv_to_hex(rgb_to_yuv(c)), the palette of
\* an image of the single colour c clustered with k = 1, differs from c by
\* at most one unit in each channel.
C16_RoundTrip ==
    \A t \in ImagePoints :
        (/\ Len(t[1]) = 1
         /\ kpc = "returned"
         /\ k = 1
         /\ points = t[2])
            => /\ palette = <<yuv_to_hex(calculate_center(t[2]))>>
               /\ WithinOne(palette[1], t[1][1][2])

\* A white image: the green channel comes back one unit lower.
C16_Witness ==
    /\ kpc = "returned"
    /\ k = 1
    /\ points = get_points(<< <<1, White>> >>)
    /\ palette = <<rgb_hex(<<255, 254, 255>>)>>

\* C17: after get_compatible_wallpapers returns, every candidate record it
\* worked on has exactly the fields and values it had before the call: each
\* record of the candidate list and of the result is a record of the store
\* as it was loaded.
C17_RecordsUnchanged ==
    (CompatibleCall /\ rkpc = "returned") =>
        /\ \A i \in 1..Len(rkCandidates) : rkCandidates[i] \in Range(rkStore)
        /\ \A i \in 1..Len(rkResult) : rkResult[i] \in Range(rkStore)

(***************************************************************************)
(* Properties of estimate_colors.                                          *)
(***************************************************************************)

\* The entries of the named-colour table at the least distance from c.
NearestEntries(c) ==
    {i \in 1..Len(CSS3_HEX_TO_NAMES) :
        \A j \in 1..Len(CSS3_HEX_TO_NAMES) :
           delta_e_cie2000(c, CSS3_HEX_TO_NAMES[i][1])
              <= delta_e_cie2000(c, CSS3_HEX_TO_NAMES[j][1])}

\* The name the table gives c: the name of its own entry when c is a key,
\* otherwise the name of the first of the nearest entries.
NameFor(c) ==
    IF \E i \in 1..Len(CSS3_HEX_TO_NAMES) : CSS3_HEX_TO_NAMES[i][1] = c
    THEN CSS3_HEX_TO_NAMES[CHOOSE i \in 1..Len(CSS3_HEX_TO_NAMES) :
                              CSS3_HEX_TO_NAMES[i][1] = c][2]
    ELSE CSS3_HEX_TO_NAMES[CHOOSE i \in NearestEntries(c) :
                              \A j \in NearestEntries(c) : i <= j][2]

\* C18: estimate_colors returns one name per input colour, in input order:
\* the name of the colour's own entry when the colour is a key of the
\* named-colour table, otherwise the name of the entry at the least
\* perceptual distance, the first such entry in table order on a tie.
C18_NamesInOrder ==
    (ecpc = "returned") =>
        /\ Len(ecResult) = Len(ecColors)
        /\ \A i \in 1..Len(ecColors) : ecResult[i] = NameFor(ecColors[i])

\* A call with a table key, a colour equally far from both entries and a
\* colour nearer to the second entry has returned.
C18_Witness ==
    /\ ecpc = "returned"
    /\ \E i \in 1..Len(ecColors) :
          \E e \in 1..Len(CSS3_HEX_TO_NAMES) : CSS3_HEX_TO_NAMES[e][1] = ecColors[i]
    /\ \E i \in 1..Len(ecColors) :
          /\ Cardinality(NearestEntries(ecColors[i])) = 2
          /\ ecResult[i] = CSS3_HEX_TO_NAMES[1][2]
    /\ \E i \in 1..Len(ecColors) :
          /\ NearestEntries(ecColors[i]) = {2}
          /\ ecColors[i] # CSS3_HEX_TO_NAMES[2][1]
          /\ ecResult[i] = CSS3_HEX_TO_NAMES[2][2]

(***************************************************************************)
(* The greedy selection of get_varying_colors.                             *)
(***************************************************************************)

\* The least distance from position j of cols to the positions sel[1..m].
LeastDistance(cols, sel, m, j) ==
    CHOOSE d \in {delta_e_cie2000(cols[j], cols[sel[t]]) : t \in 1..m} :
        \A t \in 1..m : d <= delta_e_cie2000(cols[j], cols[sel[t]])

\* sel is a farthest-first selection of n positions of cols: it starts with
\* the first position, and each later position is one not selected before
\* whose least distance to the positions before it is the largest there is,
\* the first such position in input order.
IsGreedy(cols, n, sel) ==
    /\ sel[1] = 1
    /\ \A m \in 1..(n - 1) :
          LET taken == {sel[t] : t \in 1..m}
              free == (1..Len(cols)) \ taken
          IN  /\ sel[m + 1] \in free
              /\ \A j \in free :
                    \/ LeastDistance(cols, sel, m, j) < LeastDistance(cols, sel, m, sel[m + 1])
                    \/ /\ LeastDistance(cols, sel, m, j) = LeastDistance(cols, sel, m, sel[m + 1])
                       /\ sel[m + 1] <= j

\* C20: when there are more colours than n, get_varying_colors returns a
\* farthest-first selection: after the first colour, at each step the colour
\* not yet selected whose least distance to the selected ones is largest,
\* the first in input order among those tied; so for n = 2 no colour of the
\* input is farther from the first colour than the second colour returned.
C20_GreedySelection ==
    (gvpc \in {"returned", "raised"} /\ Len(gvColors) > gvN) =>
        /\ gvpc = "returned"
        /\ \E sel \in [1..gvN -> 1..Len(gvColors)] :
              /\ IsGreedy(gvColors, gvN, sel)
              /\ gvResult = [i \in 1..gvN |-> get_rgb_hex(gvColors[sel[i]])]
        /\ (gvN = 2) =>
              \A j \in 1..Len(gvColors) :
                 delta_e_cie2000(gvColors[1], gvColors[j])
                    <= delta_e_cie2000(gvColors[1], gvResult[2])

(***************************************************************************)
(* The seed of get_varying_colors.                                         *)
(***************************************************************************)

\* Two hex strings of the same colour: colormath finds no difference
\* between them.
SameColor(c1, c2) == delta_e_cie2000(c1, c2) = 0

\* C21: for every non-empty list of colours and every n >= 1,
\* get_varying_colors returns a list whose first colour is the first colour
\* of the list: the position ranking reads as the background holds the same
\* colour before and after the reduction.
C21_FirstColorKept ==
    (gvpc \in {"returned", "raised"} /\ gvColors # <<>>) =>
        /\ gvpc = "returned"
        /\ gvResult # <<>>
        /\ SameColor(gvResult[1], gvColors[1])

\* What a call that returns does keep: its first colour is the first string
\* of the list itself where the list is returned as it is, and the string
\* colormath writes for the first colour of the list where colours were
\* dropped.
SeedKept ==
    (gvpc = "returned" /\ gvColors # <<>>) =>
        /\ gvResult # <<>>
        /\ gvResult[1] = IF Len(gvColors) <= gvN THEN gvColors[1]
                         ELSE get_rgb_hex(gvColors[1])

(***************************************************************************)
(* Properties of the passes of kmeans.                                     *)
(***************************************************************************)

\* A pass of the loop that ends without an exception.
PassDone == kpc = "loop" /\ kpc' \in {"loop", "returned"}

\* The centre of cluster a is nearer to p than that of b, or as near, by
\* the distances euclidean computes.
Nearer(p, cls, a, b) == TRUE \in Closer(p, cls[a].center, cls[b].center)

AsNear(p, cls, a, b) ==
    /\ FALSE \in Closer(p, cls[a].center, cls[b].center)
    /\ FALSE \in Closer(p, cls[b].center, cls[a].center)

\* Cluster i is the one whose centre is nearest to p, the lowest index among
\* the clusters whose centres are as near.
IsNearest(p, cls, i) ==
    \A m \in 1..Len(cls) :
        \/ m = i
        \/ Nearer(p, cls, i, m)
        \/ AsNear(p, cls, i, m) /\ i < m

\* The places <<i, t>> where p stands in the point lists of cls.
PlacesOf(p, cls) ==
    {pl \in (1..Len(cls)) \X (1..MaxPoints + 1) :
        pl[2] <= Len(cls[pl[1]].points) /\ cls[pl[1]].points[pl[2]] = p}

\* C22: in every pass of the loop each point is assigned to exactly one
\* cluster, the one whose centre (before the pass) is nearest to it, and to
\* the lowest-numbered of the clusters whose centres are equally near.
C22_NearestLowestIndex ==
    [][PassDone =>
          \A j \in 1..Len(points) :
             /\ Cardinality(PlacesOf(points[j], clusters')) = 1
             /\ \A pl \in PlacesOf(points[j], clusters') :
                   IsNearest(points[j], clusters, pl[1])]_vars

\* The clusters a pass may make of cls, when none of them is left empty.
PassOf(cls) ==
    {NewClusters(cls, plists) :
        plists \in {pl \in Assign(points, cls) : \A i \in 1..Len(pl) : pl[i] # <<>>}}

\* The second pass has run from a seed after whose first pass a point was
\* equally near to the centres of two clusters: it is in the first of them.
C22_Witness ==
    /\ iters = 2
    /\ kpc \in {"loop", "returned"}
    /\ \E s \in Samples(Len(points), k) :
          LET seeded == [i \in 1..k |->
                            [points |-> <<points[s[i]]>>, center |-> points[s[i]]]]
          IN  \E first \in PassOf(seeded) :
              /\ clusters \in PassOf(first)
              /\ \E j \in 1..Len(points) : \E a, b \in 1..k :
                    /\ a < b
                    /\ AsNear(points[j], first, a, b)
                    /\ IsNearest(points[j], first, a)
                    /\ PlacesOf(points[j], clusters) = {pl \in PlacesOf(points[j], clusters) : pl[1] = a}
                    /\ PlacesOf(points[j], clusters) # {}

\* The pixels of the points pts.
RECURSIVE Pixels(_)
Pixels(pts) == IF pts = <<>> THEN 0 ELSE Head(pts).ct + Pixels(Tail(pts))

\* The size of the float x in units of 2^-60, cut to a whole number,
\* when x has the sign neg, and zero when it has not.
PartOf(x, neg) ==
    IF x.neg # neg \/ IsZero(x) THEN <<>>
    ELSE IF x.e + 60 >= 0 THEN BigShl(x.m, x.e + 60)
    ELSE BigShr(x.m, -(x.e + 60))

\* The sum over all pixels of pts of the part of sign neg of coordinate d.
RECURSIVE PixelSum(_, _, _)
PixelSum(pts, d, neg) ==
    IF pts = <<>> THEN <<>>
    ELSE BigAdd(BigMul(BigOf(Head(pts).ct), PartOf(Head(pts).coords[d], neg)),
                PixelSum(Tail(pts), d, neg))

\* c is the mean over the pixels of pts, up to the rounding of the floats:
\* in every coordinate, c times the number of pixels is the sum over the
\* pixels to within 2^-40 per pixel (a slack of 2^20 units of 2^-60).
IsWeightedMean(c, pts) ==
    /\ Pixels(pts) > 0
    /\ \A d \in 1..Dim :
          LET n == BigOf(Pixels(pts))
              slack == BigShl(n, 20)
              above == BigAdd(BigMul(n, PartOf(c.coords[d], FALSE)), PixelSum(pts, d, TRUE))
              below == BigAdd(BigMul(n, PartOf(c.coords[d], TRUE)), PixelSum(pts, d, FALSE))
          IN  /\ ~BigLess(BigAdd(below, slack), above)
              /\ ~BigLess(BigAdd(above, slack), below)

\* C23: after every pass of the loop, and so at return, the centre of each
\* cluster is the mean of the points assigned to it in that pass, each
\* point weighted by its pixel count.
C23_WeightedMean ==
    (kpc \in {"loop", "returned"} /\ iters >= 1) =>
        \A i \in 1..Len(clusters) :
            IsWeightedMean(clusters[i].center, clusters[i].points)

\* kmeans has returned a cluster of two points with different pixel counts,
\* whose centre is nearer to the point with more pixels.
C23_Witness ==
    /\ kpc = "returned"
    /\ \E i \in 1..Len(clusters) :
          LET pts == clusters[i].points
              c == clusters[i].center
          IN  /\ Len(pts) = 2
              /\ pts[1].ct > pts[2].ct
              /\ Closer(c, pts[1], pts[2]) = {TRUE}

(***************************************************************************)
(* The weighted score of rank_wallpapers_by_color_similarity.              *)
(***************************************************************************)

\* The least distance from colour c to the colours of targets.
LeastTo(c, targets) ==
    CHOOSE d \in {color_distance(c, targets[t]) : t \in 1..Len(targets)} :
        \A t \in 1..Len(targets) : d <= color_distance(c, targets[t])

\* The best 1/(1 + distance) of every colour of accents against the colours
\* of targets, in the order of accents.
BestOf(accents, targets) ==
    [i \in 1..Len(accents) |-> FDiv(FInt(1), FInt(1 + LeastTo(accents[i], targets)))]

\* w * bgSimilarity + (1 - w) * avgAccentSimilarity with w = 0.6, for a
\* candidate of at least two colours, in the floating-point arithmetic of
\* the code, the average being the sum() of the interpreter of the call
\* divided by the number of accents.
WeightedScore(wcs, scs) ==
    LET bgSimilarity == FDiv(FInt(1), FInt(1 + color_distance(wcs[1], scs[1])))
        avgAccentSimilarity ==
            FDiv(sum(BestOf(Tail(wcs), Tail(scs)), compensated), FInt(Len(wcs) - 1))
    IN  FAdd(FMul(FDec(6, 10), bgSimilarity), FMul(FDec(4, 10), avgAccentSimilarity))

\* A weighted ranking call whose candidates all have a name and a palette
\* of at least one colour, with enough different colours for its diverse
\* subset.
WeightedCall ==
    /\ rkpc \in {"returned", "raised"}
    /\ rkCall.fn = "rank_wallpapers_by_color_similarity"
    /\ \A i \in 1..Len(rkStore) :
          /\ "name" \in DOMAIN rkStore[i]
          /\ "colors" \in DOMAIN rkStore[i]
          /\ Len(rkStore[i].colors) >= 1
          /\ Cardinality(Range(rkStore[i].colors))
                >= Min2(Len(rkStore[i].colors), VaryingSize)

\* C24: with background weighting, every candidate that has at least one
\* colour gets a score, and the score is w * bgSimilarity + (1 - w) *
\* avgAccentSimilarity with w = 0.6: bgSimilarity is 1/(1 + distance) of the
\* first candidate colour and the first target colour, avgAccentSimilarity
\* the average over the other candidate colours of the best 1/(1 + distance)
\* against the other target colours.
C24_WeightedScore ==
    WeightedCall =>
        /\ rkpc = "returned"
        /\ Len(rkRanked) = Len(rkStore)
        /\ \A i \in 1..Len(rkRanked) :
              LET wcs == get_varying_colors(rkRanked[i].wallpaper.colors, VaryingSize).colors
              IN  Len(wcs) >= 2 =>
                     rkRanked[i].score = WeightedScore(wcs, rkCall.scheme_colors)

\* C25: in every pass of the loop, the first and the later ones, each of
\* the k clusters is assigned at least one point: calculate_center never
\* divides by a total count of zero and the loop does not end in an
\* arithmetic error.
C25_NoEmptyCluster ==
    /\ (kpc = "loop") =>
          \A plists \in Assign(points, clusters) : \A i \in 1..k : plists[i] # <<>>
    /\ (kpc = "raised") => k > Len(points)

(***************************************************************************)
(* Properties of the wallpaper store.                                      *)
(***************************************************************************)

\* C26: after any sequence of import_wallpaper calls (and analyze_wallpaper
\* calls between them), no two stored metadata records carry the same
\* content hash.
C26_UniqueHashes ==
    \A w1, w2 \in wsRecords : (w1.hash = w2.hash) => (w1.id = w2.id)

\* Two wallpapers are stored and the import of a file with the content of
\* one of them has just been refused.
C26_Witness ==
    /\ Cardinality(wsRecords) = 2
    /\ wsCall.fn = "import_wallpaper"
    /\ wsCall.outcome = "ValueError"
    /\ \E w \in wsRecords : w.hash = wsCall.result

\* C27: import_wallpaper of a file whose content hash is that of a stored
\* wallpaper raises ValueError and leaves the store as it was: no image is
\* copied, no metadata file is written, no record is changed.
C27_DuplicateRefused ==
    [][(wsCall'.fn = "import_wallpaper"
           /\ \E w \in wsRecords : w.hash = wsCall'.result)
        => /\ wsCall'.outcome = "ValueError"
           /\ wsRecords' = wsRecords
           /\ wsImages' = wsImages]_vars

\* The import of a file with the content of a stored wallpaper that has
\* been analysed has just been refused, in a store that also holds a copied
\* file without metadata.
C27_Witness ==
    /\ wsCall.fn = "import_wallpaper"
    /\ wsCall.outcome = "ValueError"
    /\ \E w \in wsRecords : w.hash = wsCall.result /\ "colors" \in DOMAIN w
    /\ Cardinality(wsImages) > Cardinality(wsRecords)

\* C28: analyze_wallpaper is idempotent: once a record holds colours, a
\* later analyze_wallpaper call on it returns the stored colours, does not
\* run the extraction again, and leaves the colours and the orientation of
\* the record as they were (as does every other call).
C28_AnalyzeIdempotent ==
    [][\A w \in wsRecords :
          ("colors" \in DOMAIN w) =>
             /\ \E w2 \in wsRecords' :
                   /\ w2.id = w.id
                   /\ "colors" \in DOMAIN w2
                   /\ w2.colors = w.colors
                   /\ w2.orientation = w.orientation
             /\ (wsCall'.fn = "analyze_wallpaper" /\ wsCall'.id = w.id) =>
                   /\ wsCall'.outcome = "returned"
                   /\ wsCall'.result = w.colors
                   /\ ~wsCall'.extracted]_vars

\* analyze_wallpaper has returned the stored colours of a record, found by
\* its name, without an extraction.
C28_Witness ==
    /\ wsCall.fn = "analyze_wallpaper"
    /\ wsCall.outcome = "returned"
    /\ ~wsCall.extracted
    /\ \E w \in wsRecords :
          /\ w.id = wsCall.id
          /\ "colors" \in DOMAIN w
          /\ w.colors = wsCall.result
          /\ w.name = ManualName

\* The ids of the stored wallpapers that get_wallpapers_missing_metadata
\* does not return.
Complete == {w.id : w \in wsRecords} \ {w.id : w \in get_wallpapers_missing_metadata}

\* C29: after analyze_wallpaper has succeeded for a wallpaper, the wallpaper
\* is not among those get_wallpapers_missing_metadata returns, and no later
\* import_wallpaper or analyze_wallpaper call brings it back there.
C29_AnalysedStaysComplete ==
    [][/\ (wsCall'.fn = "analyze_wallpaper" /\ wsCall'.outcome = "returned")
             => wsCall'.id \in Complete'
       /\ Complete \subseteq Complete']_vars

\* An analysed wallpaper is not missing metadata after a later import of
\* another wallpaper, which is.
C29_Witness ==
    /\ wsCall.fn = "import_wallpaper"
    /\ wsCall.outcome = "returned"
    /\ Complete # {}
    /\ wsCall.id \in {w.id : w \in get_wallpapers_missing_metadata}

(***************************************************************************)
(* Properties of determine_wallpapers_to_set.                              *)
(***************************************************************************)
DisplaysReturned == dwpc = "returned"

\* The positions of the wallpapers that are at least as wide and as high as
\* the display.
FittingPlaces(display) ==
    LET r == ParseResolution(display.resolution)
    IN  { i \in 1..Len(dwArgs.wallpapers) :
            /\ r.ok
            /\ dwArgs.wallpapers[i].width >= r.width
            /\ dwArgs.wallpapers[i].height >= r.height }

\* Those of them whose file is recognised as an image.
ImagePlaces(display) ==
    { i \in FittingPlaces(display) : dwArgs.wallpapers[i].file = "image" }

LeastOf(S) == CHOOSE i \in S : \A j \in S : i <= j

DisplayOf(entry) ==
    CHOOSE d \in Range(dwArgs.displays) : d.identifier = entry.display

\* At most one entry per display, and none for a display nothing fits.
OneEntryEach ==
    \A d \in Range(dwArgs.displays) :
        /\ Cardinality({i \in 1..Len(dwResult) :
                          dwResult[i].display = d.identifier}) <= 1
        /\ (FittingPlaces(d) = {}) =>
              \A i \in 1..Len(dwResult) : dwResult[i].display # d.identifier

\* Every entry names a display of the call and a wallpaper of the list that
\* is at least as wide and as high as that display.
EntriesFit ==
    \A i \in 1..Len(dwResult) :
        /\ \E d \in Range(dwArgs.displays) : d.identifier = dwResult[i].display
        /\ \E j \in FittingPlaces(DisplayOf(dwResult[i])) :
              dwResult[i].wallpaper = get_wallpaper_path(dwArgs.wallpapers[j])

\* The statement as first given: without random selection the chosen
\* wallpaper is the first one of the list that fits the display.
C30_FirstFitting ==
    DisplaysReturned =>
        /\ OneEntryEach
        /\ EntriesFit
        /\ ~dwArgs.use_random =>
              \A i \in 1..Len(dwResult) :
                  dwResult[i].wallpaper =
                      get_wallpaper_path(
                          dwArgs.wallpapers[LeastOf(FittingPlaces(DisplayOf(dwResult[i])))])

\* C30: the result has at most one entry per display; the wallpaper of each
\* entry is at least as wide and as high as its display; without random
\* selection it is the first wallpaper of the list that fits and whose file
\* is recognised as an image (files of no image type are skipped); a display
\* that no wallpaper fits gets no entry, and when every file exists each
\* display with a readable resolution that an image fits does get one.
C30_FirstFittingImage ==
    DisplaysReturned =>
        /\ OneEntryEach
        /\ EntriesFit
        /\ ~dwArgs.use_random =>
              \A i \in 1..Len(dwResult) :
                  /\ ImagePlaces(DisplayOf(dwResult[i])) # {}
                  /\ dwResult[i].wallpaper =
                        get_wallpaper_path(
                            dwArgs.wallpapers[LeastOf(ImagePlaces(DisplayOf(dwResult[i])))])
        /\ (\A j \in 1..Len(dwArgs.wallpapers) : dwArgs.wallpapers[j].file # "missing")
              => \A d \in Range(dwArgs.displays) :
                    (ImagePlaces(d) # {}) =>
                        \E i \in 1..Len(dwResult) : dwResult[i].display = d.identifier

\* Without random selection, a file of no image type that fits comes first
\* in the list and is passed over for an image behind it, while the other
\* display of the call, which nothing fits, gets no entry.
C30_Witness ==
    /\ DisplaysReturned
    /\ ~dwArgs.use_random
    /\ Len(dwArgs.displays) = 2
    /\ Len(dwResult) = 1
    /\ dwResult[1].display = dwArgs.displays[2].identifier
    /\ LeastOf(FittingPlaces(dwArgs.displays[2])) = 1
    /\ LeastOf(ImagePlaces(dwArgs.displays[2])) = 2
    /\ FittingPlaces(dwArgs.displays[1]) = {}

====
